---- MODULE Spec2Model ----
(***************************************************************************)
(* Model of the CyMiSE core: the persisted twin graph (store repository + *)
(* graph service), the revision diff service and the impact service.      *)
(*                                                                         *)
(* Strings that the code inspects character by character (DTMIs and       *)
(* artifact keys: startswith, sorted) are sequences of code points, so     *)
(* that prefix tests and ordering are computed, not assumed.  Floats are   *)
(* kept in tenths (0.6 is 6, 1.0 is 10); the sums the code forms           *)
(* (0.6 + 0.2, 0.8 + 0.2) are exact in binary floating point.              *)
(***************************************************************************)
EXTENDS Integers, Sequences, FiniteSets, TLC

VARIABLES twin_nodes, relationship_edges, file_objects, extracted_objects,
          stitch_candidates, ret,
          bfs,        \* locals of the running get_subgraph call
          fs,         \* the file system: the content at each watched path
          now,        \* time.monotonic(), in units of the debounce clock
          _state,     \* FileWatcher._state
          events,     \* FileWatcher.events
          jobs        \* FileWatcher.jobs

\* the state of the stepwise get_subgraph call and of the file watcher
processVars == <<bfs, fs, now, _state, events, jobs>>

vars == <<twin_nodes, relationship_edges, file_objects, extracted_objects,
          stitch_candidates, ret, processVars>>

\* no get_subgraph call is running and no watcher has been constructed
ProcessesIdle ==
    /\ bfs = [pc |-> "idle"]
    /\ fs = <<>>
    /\ now = 0
    /\ _state = <<>>
    /\ events = <<>>
    /\ jobs = <<>>

(***************************************************************************)
(* Bounds of the model.                                                    *)
(***************************************************************************)
MaxTwinId == 3
MaxEdgeId == 2
MaxFileId == 2
MaxExtractedId == 2
MaxStitchId == 2
MaxHops == 2
MaxNodes == 3
MaxKeys == 2
BfsNodes == 2
BfsEdges == 2
MaxClock == 6
WatchedFiles == 1

MaxImportEdges == 4

(***************************************************************************)
(* Strings as sequences of code points.                                    *)
(***************************************************************************)
DtmiPrefix == <<100, 116, 109, 105, 58>>

\* "dtmi:a;1", "dtmi:b;1", ...
DtmiOfIndex(i) == DtmiPrefix \o <<96 + i, 59, 49>>

DtmiA == DtmiOfIndex(1)
DtmiB == DtmiOfIndex(2)
DtmiC == DtmiOfIndex(3)

Dtmis == {DtmiA, DtmiB, DtmiC}

\* an artifact-local key, "p1"
KeyP1 == <<112, 49>>

\* None for an Optional[str] column (falsy, like the empty string)
NoDtmi == <<>>

\* display names: None, "n1"
NoName == <<>>

NameN1 == <<110, 49>>

\* model_version: None and "1.0"
NoVersion == <<>>

VersionV1 == <<49, 46, 48>>

\* Optional[dict] validation payload: None, or the stored dict
None == <<>>

Some(payload) == <<payload>>

PayloadWarning == [severity |-> "warning"]

PayloadError == [severity |-> "error"]

\* ORM rows as constructed: the optional columns default to None
TwinNode(id, dtmi) ==
    [id |-> id, dtmi |-> dtmi, display_name |-> NoName,
     model_version |-> NoVersion, validation |-> None]

NoMediaType == <<>>

\* "application/step", as "s"
MediaTypeStep == <<115>>

FileObject(id, twin_id) ==
    [id |-> id, twin_id |-> twin_id, media_type |-> NoMediaType, version |-> NoVersion]

RelationshipEdge(id, source_id, target_id) ==
    [id |-> id, source_id |-> source_id, target_id |-> target_id, validation |-> None]

\* JSON list items: a string, or a number (kept as its decimal text, "7")
StrItem(s) == [t |-> "str", v |-> s]
IntItem == [t |-> "int", v |-> <<55>>]

KeyItems == {StrItem(DtmiA), StrItem(KeyP1), IntItem}

SeqsUpTo(S, n) == UNION {[1..k -> S] : k \in 0..n}

\* Snapshot payloads: a dict with a revision field and an optional dt_keys list.
DataUniverse ==
    {[rev |-> 1]} \cup {[rev |-> 1, dt_keys |-> l] : l \in SeqsUpTo(KeyItems, MaxKeys)}

Kinds == {"kicad_ecad", "freecad_tree", "metadata"}

NULL == 0

startswith(s, prefix) ==
    /\ Len(s) >= Len(prefix)
    /\ SubSeq(s, 1, Len(prefix)) = prefix

Min(a, b) == IF a <= b THEN a ELSE b
Max(a, b) == IF a >= b THEN a ELSE b

\* Python's str comparison: first differing code point, then length.
StrLess(a, b) ==
    \/ \E i \in 1..Min(Len(a), Len(b)) :
          /\ a[i] < b[i]
          /\ \A j \in 1..(i - 1) : a[j] = b[j]
    \/ /\ Len(a) < Len(b)
       /\ \A j \in 1..Len(a) : a[j] = b[j]

RECURSIVE sorted(_)
sorted(S) ==
    IF S = {} THEN <<>>
    ELSE LET m == CHOOSE x \in S : \A y \in S \ {x} : StrLess(x, y)
         IN  <<m>> \o sorted(S \ {m})

Range(s) == {s[i] : i \in 1..Len(s)}

RECURSIVE SortById(_)
SortById(S) ==
    IF S = {} THEN <<>>
    ELSE LET m == CHOOSE x \in S : \A y \in S : x.id <= y.id
         IN  <<m>> \o SortById(S \ {m})

\* rowid of the next inserted row (INTEGER PRIMARY KEY without AUTOINCREMENT)
NextId(rows) ==
    IF rows = {} THEN 1
    ELSE (CHOOSE m \in {r.id : r \in rows} : \A r \in rows : r.id <= m) + 1

(***************************************************************************)
(* Store repository: queries                                               *)
(***************************************************************************)
get_twin_by_dtmi(dtmi) == {t \in twin_nodes : t.dtmi = dtmi}

get_twin_by_id(twin_id) == {t \in twin_nodes : t.id = twin_id}

get_relationships_for_source(source_id) ==
    SortById({e \in relationship_edges : e.source_id = source_id})

get_relationships_for_target(target_id) ==
    SortById({e \in relationship_edges : e.target_id = target_id})

(***************************************************************************)
(* Graph service: twin operations                                          *)
(***************************************************************************)
Init ==
    /\ ProcessesIdle
    /\ twin_nodes = {}
    /\ relationship_edges = {}
    /\ file_objects = {}
    /\ extracted_objects = {}
    /\ stitch_candidates = {}
    /\ ret = [op |-> "init"]

\* mutant: no unique constraint on dtmi, the second row is committed
create_twin_NoUniqueConstraint(dtmi) ==
    /\ UNCHANGED processVars
    /\ NextId(twin_nodes) <= MaxTwinId
    /\ twin_nodes' = twin_nodes \cup {TwinNode(NextId(twin_nodes), dtmi)}
    /\ ret' = [op |-> "create_twin", dtmi |-> dtmi, exc |-> "none"]
    /\ UNCHANGED <<relationship_edges, file_objects, extracted_objects, stitch_candidates>>

\* add_twin: the unique constraint on dtmi makes the commit fail and the
\* session roll back.
create_twin(dtmi) ==
    /\ UNCHANGED processVars
    /\ IF get_twin_by_dtmi(dtmi) # {}
       THEN /\ ret' = [op |-> "create_twin", dtmi |-> dtmi, exc |-> "IntegrityError"]
            /\ UNCHANGED twin_nodes
       ELSE /\ NextId(twin_nodes) <= MaxTwinId
            /\ twin_nodes' = twin_nodes \cup {TwinNode(NextId(twin_nodes), dtmi)}
            /\ ret' = [op |-> "create_twin", dtmi |-> dtmi, exc |-> "none"]
    /\ UNCHANGED <<relationship_edges, file_objects, extracted_objects, stitch_candidates>>

\* mutant: a field passed as None is cleared
update_twin_NoneClears(dtmi, display_name, model_version) ==
    /\ UNCHANGED processVars
    /\ IF get_twin_by_dtmi(dtmi) = {}
       THEN /\ ret' = [op |-> "update_twin", dtmi |-> dtmi, display_name |-> display_name,
                       model_version |-> model_version, exc |-> "ValueError"]
            /\ UNCHANGED twin_nodes
       ELSE /\ twin_nodes' =
                  {IF t.dtmi = dtmi
                   THEN [t EXCEPT !.display_name = display_name,
                                  !.model_version = model_version]
                   ELSE t : t \in twin_nodes}
            /\ ret' = [op |-> "update_twin", dtmi |-> dtmi, display_name |-> display_name,
                       model_version |-> model_version, exc |-> "none"]
    /\ UNCHANGED <<relationship_edges, file_objects, extracted_objects, stitch_candidates>>

\* display_name = None and model_version = None leave their field as it is;
\* an unknown dtmi raises ValueError before anything is written.
update_twin(dtmi, display_name, model_version) ==
    /\ UNCHANGED processVars
    /\ IF get_twin_by_dtmi(dtmi) = {}
       THEN /\ ret' = [op |-> "update_twin", dtmi |-> dtmi, display_name |-> display_name,
                       model_version |-> model_version, exc |-> "ValueError"]
            /\ UNCHANGED twin_nodes
       ELSE /\ twin_nodes' =
                  {IF t.dtmi = dtmi
                   THEN [t EXCEPT
                           !.display_name =
                               IF display_name # NoName THEN display_name ELSE @,
                           !.model_version =
                               IF model_version # NoVersion THEN model_version ELSE @]
                   ELSE t : t \in twin_nodes}
            /\ ret' = [op |-> "update_twin", dtmi |-> dtmi, display_name |-> display_name,
                       model_version |-> model_version, exc |-> "none"]
    /\ UNCHANGED <<relationship_edges, file_objects, extracted_objects, stitch_candidates>>

\* Rows removed together with a twin by session.delete(twin): the ORM
\* relationships outgoing_edges, incoming_edges and files all cascade
\* "all, delete-orphan"; a deleted file object cascades to its extracted
\* objects and stitch candidates.
\* mutant: only the outgoing_edges relationship cascades
CascadeEdges_OutgoingOnly(twin_id) ==
    {e \in relationship_edges : e.source_id = twin_id}

CascadeEdges(twin_id) ==
    {e \in relationship_edges : e.source_id = twin_id \/ e.target_id = twin_id}

CascadeFiles(twin_id) == {f \in file_objects : f.twin_id = twin_id}

CascadeExtracted(files) ==
    {x \in extracted_objects : x.file_object_id \in {f.id : f \in files}}

CascadeStitches(files) ==
    {s \in stitch_candidates :
        \/ s.file_object_id \in {f.id : f \in files}
        \/ s.extracted_object_id \in {x.id : x \in CascadeExtracted(files)}}

delete_twin(dtmi) ==
    /\ UNCHANGED processVars
    /\ IF get_twin_by_dtmi(dtmi) = {}
       THEN /\ ret' = [op |-> "delete_twin", dtmi |-> dtmi, value |-> FALSE]
            /\ UNCHANGED <<twin_nodes, relationship_edges, file_objects,
                           extracted_objects, stitch_candidates>>
       ELSE LET twin == CHOOSE t \in twin_nodes : t.dtmi = dtmi
                files == CascadeFiles(twin.id)
            IN  /\ twin_nodes' = twin_nodes \ {twin}
                /\ relationship_edges' = relationship_edges \ CascadeEdges(twin.id)
                /\ file_objects' = file_objects \ files
                /\ extracted_objects' = extracted_objects \ CascadeExtracted(files)
                /\ stitch_candidates' = stitch_candidates \ CascadeStitches(files)
                /\ ret' = [op |-> "delete_twin", dtmi |-> dtmi, value |-> TRUE]

(***************************************************************************)
(* Graph service: relationship operations                                  *)
(***************************************************************************)
\* _require_twin raises ValueError for either endpoint before any write.
create_relationship(source_dtmi, target_dtmi) ==
    /\ UNCHANGED processVars
    /\ IF get_twin_by_dtmi(source_dtmi) = {} \/ get_twin_by_dtmi(target_dtmi) = {}
       THEN /\ ret' = [op |-> "create_relationship", source_dtmi |-> source_dtmi,
                       target_dtmi |-> target_dtmi, exc |-> "ValueError"]
            /\ UNCHANGED relationship_edges
       ELSE LET source == CHOOSE t \in twin_nodes : t.dtmi = source_dtmi
                target == CHOOSE t \in twin_nodes : t.dtmi = target_dtmi
            IN  /\ NextId(relationship_edges) <= MaxEdgeId
                /\ relationship_edges' = relationship_edges \cup
                       {RelationshipEdge(NextId(relationship_edges), source.id, target.id)}
                /\ ret' = [op |-> "create_relationship", source_dtmi |-> source_dtmi,
                           target_dtmi |-> target_dtmi, exc |-> "none"]
    /\ UNCHANGED <<twin_nodes, file_objects, extracted_objects, stitch_candidates>>

(***************************************************************************)
(* Graph service: get_subgraph                                             *)
(***************************************************************************)
\* mutant: an edge is recorded only when it leads to an unvisited node
RECURSIVE WalkEdges_EdgeOnlyIfFresh(_, _, _, _, _)
WalkEdges_EdgeOnlyIfFresh(edges_to_walk, node_id, depth, directed, st) ==
    IF edges_to_walk = <<>> THEN st
    ELSE LET edge == Head(edges_to_walk)
             neighbor_id == IF directed THEN edge.target_id
                            ELSE IF edge.source_id = node_id THEN edge.target_id
                                 ELSE edge.source_id
             ve == IF edge.id \notin Range(st.visited_edges)
                      /\ neighbor_id \notin Range(st.visited_nodes)
                   THEN Append(st.visited_edges, edge.id)
                   ELSE st.visited_edges
             fresh == /\ neighbor_id \notin Range(st.visited_nodes)
                      /\ get_twin_by_id(neighbor_id) # {}
             st2 == [queue |-> IF fresh
                               THEN Append(st.queue, <<neighbor_id, depth + 1>>)
                               ELSE st.queue,
                     visited_nodes |-> IF fresh
                                       THEN Append(st.visited_nodes, neighbor_id)
                                       ELSE st.visited_nodes,
                     visited_edges |-> ve]
         IN  WalkEdges_EdgeOnlyIfFresh(Tail(edges_to_walk), node_id, depth, directed, st2)

\* mutant: the undirected walk forgets to take the other endpoint
RECURSIVE WalkEdges_AlwaysTarget(_, _, _, _, _)
WalkEdges_AlwaysTarget(edges_to_walk, node_id, depth, directed, st) ==
    IF edges_to_walk = <<>> THEN st
    ELSE LET edge == Head(edges_to_walk)
             ve == IF edge.id \notin Range(st.visited_edges)
                   THEN Append(st.visited_edges, edge.id)
                   ELSE st.visited_edges
             neighbor_id == edge.target_id
             fresh == /\ neighbor_id \notin Range(st.visited_nodes)
                      /\ get_twin_by_id(neighbor_id) # {}
             st2 == [queue |-> IF fresh
                               THEN Append(st.queue, <<neighbor_id, depth + 1>>)
                               ELSE st.queue,
                     visited_nodes |-> IF fresh
                                       THEN Append(st.visited_nodes, neighbor_id)
                                       ELSE st.visited_nodes,
                     visited_edges |-> ve]
         IN  WalkEdges_AlwaysTarget(Tail(edges_to_walk), node_id, depth, directed, st2)

\* The for loop over edges_to_walk of one expanded node.  st carries the
\* queue, visited_nodes and visited_edges (both in insertion order).
RECURSIVE WalkEdges(_, _, _, _, _)
WalkEdges(edges_to_walk, node_id, depth, directed, st) ==
    IF edges_to_walk = <<>> THEN st
    ELSE LET edge == Head(edges_to_walk)
             ve == IF edge.id \notin Range(st.visited_edges)
                   THEN Append(st.visited_edges, edge.id)
                   ELSE st.visited_edges
             neighbor_id == IF directed THEN edge.target_id
                            ELSE IF edge.source_id = node_id THEN edge.target_id
                                 ELSE edge.source_id
             fresh == /\ neighbor_id \notin Range(st.visited_nodes)
                      /\ get_twin_by_id(neighbor_id) # {}
             st2 == [queue |-> IF fresh
                               THEN Append(st.queue, <<neighbor_id, depth + 1>>)
                               ELSE st.queue,
                     visited_nodes |-> IF fresh
                                       THEN Append(st.visited_nodes, neighbor_id)
                                       ELSE st.visited_nodes,
                     visited_edges |-> ve]
         IN  WalkEdges(Tail(edges_to_walk), node_id, depth, directed, st2)

\* mutant: the frontier test is off by one (depth > max_hops)
RECURSIVE BfsLoop_OffByOne(_, _, _)
BfsLoop_OffByOne(st, max_hops, directed) ==
    IF st.queue = <<>> THEN st
    ELSE LET node_id == Head(st.queue)[1]
             depth == Head(st.queue)[2]
             popped == [st EXCEPT !.queue = Tail(st.queue)]
         IN  IF depth > max_hops
             THEN BfsLoop_OffByOne(popped, max_hops, directed)
             ELSE LET outgoing == get_relationships_for_source(node_id)
                      incoming == get_relationships_for_target(node_id)
                      edges_to_walk == IF directed THEN outgoing
                                       ELSE outgoing \o incoming
                  IN  BfsLoop_OffByOne(WalkEdges(edges_to_walk, node_id, depth, directed, popped),
                              max_hops, directed)

\* mutant: only nodes of the last layer below max_hops are expanded
RECURSIVE BfsLoop_LastLayerOnly(_, _, _)
BfsLoop_LastLayerOnly(st, max_hops, directed) ==
    IF st.queue = <<>> THEN st
    ELSE LET node_id == Head(st.queue)[1]
             depth == Head(st.queue)[2]
             popped == [st EXCEPT !.queue = Tail(st.queue)]
         IN  IF depth # max_hops - 1
             THEN BfsLoop_LastLayerOnly(popped, max_hops, directed)
             ELSE LET outgoing == get_relationships_for_source(node_id)
                      incoming == get_relationships_for_target(node_id)
                      edges_to_walk == IF directed THEN outgoing
                                       ELSE outgoing \o incoming
                  IN  BfsLoop_LastLayerOnly(WalkEdges(edges_to_walk, node_id, depth, directed, popped),
                              max_hops, directed)

\* The while loop over the queue.
RECURSIVE BfsLoop(_, _, _)
BfsLoop(st, max_hops, directed) ==
    IF st.queue = <<>> THEN st
    ELSE LET node_id == Head(st.queue)[1]
             depth == Head(st.queue)[2]
             popped == [st EXCEPT !.queue = Tail(st.queue)]
         IN  IF depth >= max_hops
             THEN BfsLoop(popped, max_hops, directed)
             ELSE LET outgoing == get_relationships_for_source(node_id)
                      incoming == get_relationships_for_target(node_id)
                      edges_to_walk == IF directed THEN outgoing
                                       ELSE outgoing \o incoming
                  IN  BfsLoop(WalkEdges(edges_to_walk, node_id, depth, directed, popped),
                              max_hops, directed)

DtmiOfId(twin_id) == (CHOOSE t \in twin_nodes : t.id = twin_id).dtmi

IdOfDtmi(dtmi) == (CHOOSE t \in twin_nodes : t.dtmi = dtmi).id

\* Result of get_subgraph for an existing start and max_hops >= 0: the
\* dtmis of the returned nodes and the ids of the returned edges, in order.
SubgraphOf(start_dtmi, max_hops, directed) ==
    LET start == CHOOSE t \in twin_nodes : t.dtmi = start_dtmi
        st == BfsLoop([queue |-> <<<<start.id, 0>>>>,
                       visited_nodes |-> <<start.id>>,
                       visited_edges |-> <<>>], max_hops, directed)
    IN  [nodes |-> [i \in 1..Len(st.visited_nodes) |-> DtmiOfId(st.visited_nodes[i])],
         edges |-> st.visited_edges]

get_subgraph(start_dtmi, max_hops, directed) ==
    /\ UNCHANGED processVars
    /\ IF max_hops < 0 \/ get_twin_by_dtmi(start_dtmi) = {}
       THEN ret' = [op |-> "get_subgraph", exc |-> "ValueError"]
       ELSE ret' = [op |-> "get_subgraph", start_dtmi |-> start_dtmi,
                    max_hops |-> max_hops, directed |-> directed,
                    exc |-> "none",
                    nodes |-> SubgraphOf(start_dtmi, max_hops, directed).nodes,
                    edges |-> SubgraphOf(start_dtmi, max_hops, directed).edges]
    /\ UNCHANGED <<twin_nodes, relationship_edges, file_objects,
                   extracted_objects, stitch_candidates>>

(***************************************************************************)
(* Graph service: get_subgraph, one iteration of its while loop at a time. *)
(* bfs holds the locals of the call; enqueues and expansions record every  *)
(* queue.append and every queue.popleft of the call, in order.             *)
(***************************************************************************)
get_subgraph_call(start_dtmi, max_hops, directed) ==
    /\ bfs.pc = "idle"
    /\ IF max_hops < 0 \/ get_twin_by_dtmi(start_dtmi) = {}
       THEN /\ bfs' = [pc |-> "done"]
            /\ ret' = [op |-> "get_subgraph", exc |-> "ValueError"]
       ELSE LET start == CHOOSE t \in twin_nodes : t.dtmi = start_dtmi
            IN  /\ bfs' = [pc |-> "loop", max_hops |-> max_hops, directed |-> directed,
                           queue |-> <<<<start.id, 0>>>>,
                           visited_nodes |-> <<start.id>>,
                           visited_edges |-> <<>>,
                           enqueues |-> <<start.id>>,
                           expansions |-> <<>>]
                /\ UNCHANGED ret
    /\ UNCHANGED <<twin_nodes, relationship_edges, file_objects, extracted_objects,
                   stitch_candidates, fs, now, _state, events, jobs>>

\* the queue, visited_nodes and visited_edges of the call
BfsLocals ==
    [queue |-> bfs.queue, visited_nodes |-> bfs.visited_nodes,
     visited_edges |-> bfs.visited_edges]

\* mutant: a neighbour is enqueued whether or not it has been visited
BfsIteration_NoVisitedCheck(st, max_hops, directed) ==
    LET node_id == Head(st.queue)[1]
        depth == Head(st.queue)[2]
        popped == [st EXCEPT !.queue = Tail(st.queue)]
        outgoing == get_relationships_for_source(node_id)
        incoming == get_relationships_for_target(node_id)
        edges_to_walk == IF directed THEN outgoing ELSE outgoing \o incoming
        walked == WalkEdges(edges_to_walk, node_id, depth, directed, popped)
    IN  IF depth >= max_hops THEN popped
        ELSE [walked EXCEPT !.queue =
                 popped.queue \o
                 [i \in 1..Len(edges_to_walk) |->
                     <<IF directed \/ edges_to_walk[i].source_id = node_id
                       THEN edges_to_walk[i].target_id
                       ELSE edges_to_walk[i].source_id, depth + 1>>]]

\* one iteration of `while queue`: popleft, the depth test, the for loop
BfsIteration(st, max_hops, directed) ==
    LET node_id == Head(st.queue)[1]
        depth == Head(st.queue)[2]
        popped == [st EXCEPT !.queue = Tail(st.queue)]
        outgoing == get_relationships_for_source(node_id)
        incoming == get_relationships_for_target(node_id)
        edges_to_walk == IF directed THEN outgoing ELSE outgoing \o incoming
    IN  IF depth >= max_hops THEN popped
        ELSE WalkEdges(edges_to_walk, node_id, depth, directed, popped)

get_subgraph_iterate ==
    /\ bfs.pc = "loop"
    /\ bfs.queue # <<>>
    /\ LET st == BfsIteration(BfsLocals, bfs.max_hops, bfs.directed)
           appended == SubSeq(st.queue, Len(bfs.queue), Len(st.queue))
       IN  bfs' = [bfs EXCEPT !.queue = st.queue,
                              !.visited_nodes = st.visited_nodes,
                              !.visited_edges = st.visited_edges,
                              !.enqueues = @ \o [i \in 1..Len(appended) |-> appended[i][1]],
                              !.expansions = Append(@, Head(bfs.queue)[1])]
    /\ UNCHANGED <<twin_nodes, relationship_edges, file_objects, extracted_objects,
                   stitch_candidates, ret, fs, now, _state, events, jobs>>

get_subgraph_return ==
    /\ bfs.pc = "loop"
    /\ bfs.queue = <<>>
    /\ bfs' = [bfs EXCEPT !.pc = "done"]
    /\ ret' = [op |-> "get_subgraph", exc |-> "none",
               nodes |-> [i \in 1..Len(bfs.visited_nodes) |->
                             DtmiOfId(bfs.visited_nodes[i])],
               edges |-> bfs.visited_edges]
    /\ UNCHANGED <<twin_nodes, relationship_edges, file_objects, extracted_objects,
                   stitch_candidates, fs, now, _state, events, jobs>>

(***************************************************************************)
(* Specification of the graph mutations                                    *)
(***************************************************************************)
Next ==
    \/ \E dtmi \in Dtmis : create_twin(dtmi)
    \/ \E dtmi \in Dtmis : delete_twin(dtmi)
    \/ \E s \in Dtmis, t \in Dtmis : create_relationship(s, t)

Spec == Init /\ [][Next]_vars

(***************************************************************************)
(* Specification of the twin operations                                    *)
(***************************************************************************)
NextTwins ==
    \/ \E dtmi \in Dtmis : create_twin(dtmi)
    \/ \E dtmi \in Dtmis, display_name \in {NoName, NameN1},
          model_version \in {NoVersion, VersionV1} :
              update_twin(dtmi, display_name, model_version)
    \/ \E dtmi \in Dtmis : delete_twin(dtmi)

SpecTwins == Init /\ [][NextTwins]_vars

(***************************************************************************)
(* Specification of the running get_subgraph call: BfsNodes twins with up  *)
(* to BfsEdges relationships between any of them (cycles, self-loops and   *)
(* parallel edges included), one call from any start with any max_hops and *)
(* either direction.                                                       *)
(***************************************************************************)
InitBfs ==
    /\ ProcessesIdle
    /\ twin_nodes = {TwinNode(i, DtmiOfIndex(i)) : i \in 1..BfsNodes}
    /\ \E k \in 0..BfsEdges :
          \E ends \in [1..k -> (1..BfsNodes) \X (1..BfsNodes)] :
              relationship_edges =
                  {RelationshipEdge(i, ends[i][1], ends[i][2]) : i \in 1..k}
    /\ file_objects = {}
    /\ extracted_objects = {}
    /\ stitch_candidates = {}
    /\ ret = [op |-> "init"]

NextBfs ==
    \/ \E i \in 1..(BfsNodes + 1), h \in (-1)..MaxHops, d \in BOOLEAN :
          get_subgraph_call(DtmiOfIndex(i), h, d)
    \/ get_subgraph_iterate
    \/ get_subgraph_return

SpecBfs == InitBfs /\ [][NextBfs]_vars

\* the thread that runs the call keeps running: an enabled iteration or
\* return is eventually taken
SpecBfsFair == SpecBfs /\ WF_vars(get_subgraph_iterate) /\ WF_vars(get_subgraph_return)

(***************************************************************************)
(* Graph service: validation payload accessors                             *)
(***************************************************************************)
get_relationship_by_id(edge_id) == {e \in relationship_edges : e.id = edge_id}

\* mutant: the payload is stored on every twin
set_node_validation_AllTwins(dtmi, payload) ==
    /\ UNCHANGED processVars
    /\ IF get_twin_by_dtmi(dtmi) = {}
       THEN /\ ret' = [op |-> "set_node_validation", dtmi |-> dtmi, exc |-> "ValueError"]
            /\ UNCHANGED twin_nodes
       ELSE /\ twin_nodes' = {[t EXCEPT !.validation = payload] : t \in twin_nodes}
            /\ ret' = [op |-> "set_node_validation", dtmi |-> dtmi, exc |-> "none",
                       value |-> payload]
    /\ UNCHANGED <<relationship_edges, file_objects, extracted_objects, stitch_candidates>>

\* set_twin_validation returns None for an unknown dtmi, which the service
\* turns into ValueError; otherwise the payload (None included) is stored.
set_node_validation(dtmi, payload) ==
    /\ UNCHANGED processVars
    /\ IF get_twin_by_dtmi(dtmi) = {}
       THEN /\ ret' = [op |-> "set_node_validation", dtmi |-> dtmi, exc |-> "ValueError"]
            /\ UNCHANGED twin_nodes
       ELSE /\ twin_nodes' = {IF t.dtmi = dtmi THEN [t EXCEPT !.validation = payload]
                              ELSE t : t \in twin_nodes}
            /\ ret' = [op |-> "set_node_validation", dtmi |-> dtmi, exc |-> "none",
                       value |-> payload]
    /\ UNCHANGED <<relationship_edges, file_objects, extracted_objects, stitch_candidates>>

\* an unknown dtmi returns None, it does not raise
get_node_validation(dtmi) ==
    /\ UNCHANGED processVars
    /\ ret' = [op |-> "get_node_validation", dtmi |-> dtmi, exc |-> "none",
               value |-> IF get_twin_by_dtmi(dtmi) = {} THEN None
                         ELSE (CHOOSE t \in twin_nodes : t.dtmi = dtmi).validation]
    /\ UNCHANGED <<twin_nodes, relationship_edges, file_objects,
                   extracted_objects, stitch_candidates>>

\* both endpoints of a stored edge exist (foreign keys and the delete
\* cascade), so _require_twin_by_id does not raise after the write
set_edge_validation(edge_id, payload) ==
    /\ UNCHANGED processVars
    /\ IF get_relationship_by_id(edge_id) = {}
       THEN /\ ret' = [op |-> "set_edge_validation", edge_id |-> edge_id,
                       exc |-> "ValueError"]
            /\ UNCHANGED relationship_edges
       ELSE /\ relationship_edges' =
                  {IF e.id = edge_id THEN [e EXCEPT !.validation = payload]
                   ELSE e : e \in relationship_edges}
            /\ ret' = [op |-> "set_edge_validation", edge_id |-> edge_id,
                       exc |-> "none", value |-> payload]
    /\ UNCHANGED <<twin_nodes, file_objects, extracted_objects, stitch_candidates>>

\* an unknown edge id returns None, it does not raise
get_edge_validation(edge_id) ==
    /\ UNCHANGED processVars
    /\ ret' = [op |-> "get_edge_validation", edge_id |-> edge_id, exc |-> "none",
               value |-> IF get_relationship_by_id(edge_id) = {} THEN None
                         ELSE (CHOOSE e \in relationship_edges : e.id = edge_id).validation]
    /\ UNCHANGED <<twin_nodes, relationship_edges, file_objects,
                   extracted_objects, stitch_candidates>>

(***************************************************************************)
(* Specification of the in-place updates: two twins joined by one          *)
(* relationship; the twin fields and the validation payloads are updated   *)
(* and read back, for stored and for unknown DTMIs and edge ids.           *)
(***************************************************************************)
Payloads == {None, Some(PayloadWarning), Some(PayloadError)}

InitValidation ==
    /\ ProcessesIdle
    /\ twin_nodes = {TwinNode(1, DtmiA), TwinNode(2, DtmiB)}
    /\ relationship_edges = {RelationshipEdge(1, 1, 2)}
    /\ file_objects = {}
    /\ extracted_objects = {}
    /\ stitch_candidates = {}
    /\ ret = [op |-> "init"]

NextValidation ==
    \/ \E dtmi \in Dtmis, display_name \in {NoName, NameN1},
          model_version \in {NoVersion, VersionV1} :
              update_twin(dtmi, display_name, model_version)
    \/ \E dtmi \in Dtmis, payload \in Payloads : set_node_validation(dtmi, payload)
    \/ \E dtmi \in Dtmis : get_node_validation(dtmi)
    \/ \E edge_id \in 1..2, payload \in Payloads : set_edge_validation(edge_id, payload)
    \/ \E edge_id \in 1..2 : get_edge_validation(edge_id)

SpecValidation == InitValidation /\ [][NextValidation]_vars

(***************************************************************************)
(* Specification of get_subgraph: the stores reached by creating MaxNodes  *)
(* twins and up to MaxEdgeId relationships between any of them (loops and  *)
(* parallel edges included), queried from every start.                     *)
(***************************************************************************)
NodeDtmis == {DtmiOfIndex(i) : i \in 1..MaxNodes}

InitSubgraph ==
    /\ ProcessesIdle
    /\ twin_nodes = {TwinNode(i, DtmiOfIndex(i)) :
                        i \in 1..MaxNodes}
    /\ \E k \in 0..MaxEdgeId :
          \E ends \in [1..k -> (1..MaxNodes) \X (1..MaxNodes)] :
              relationship_edges =
                  {RelationshipEdge(i, ends[i][1], ends[i][2]) :
                      i \in 1..k}
    /\ file_objects = {}
    /\ extracted_objects = {}
    /\ stitch_candidates = {}
    /\ ret = [op |-> "init"]

NextSubgraph ==
    \E s \in NodeDtmis \cup {DtmiOfIndex(MaxNodes + 1)},
       h \in (-1)..MaxHops, d \in BOOLEAN : get_subgraph(s, h, d)

SpecSubgraph == InitSubgraph /\ [][NextSubgraph]_vars

(***************************************************************************)
(* Store repository: file objects and extracted objects                    *)
(***************************************************************************)
get_file_object_by_id(file_id) == {f \in file_objects : f.id = file_id}

get_extracted_object_by_id(extracted_object_id) ==
    {x \in extracted_objects : x.id = extracted_object_id}

add_extracted_object(file_object_id, kind, data) ==
    /\ UNCHANGED processVars
    /\ get_file_object_by_id(file_object_id) # {}
    /\ NextId(extracted_objects) <= MaxExtractedId
    /\ extracted_objects' = extracted_objects \cup
           {[id |-> NextId(extracted_objects), kind |-> kind, data |-> data,
             file_object_id |-> file_object_id]}
    /\ ret' = [op |-> "add_extracted_object"]
    /\ UNCHANGED <<twin_nodes, relationship_edges, file_objects, stitch_candidates>>

(***************************************************************************)
(* Graph service and store repository: file objects, stitch candidates     *)
(***************************************************************************)
\* StoreRepository.update_file_object: the rows after the call.  twin_id is
\* assigned whatever was passed (None when the keyword is left out);
\* media_type and version are assigned only when they are not None.
update_file_object(file_id, twin_id, media_type, version) ==
    {IF f.id = file_id
     THEN [f EXCEPT !.twin_id = twin_id,
                    !.media_type = IF media_type # NoMediaType THEN media_type ELSE @,
                    !.version = IF version # NoVersion THEN version ELSE @]
     ELSE f : f \in file_objects}

\* twin_dtmi = NoDtmi stands for a call without twin_dtmi
add_file_object(twin_dtmi) ==
    /\ UNCHANGED processVars
    /\ IF twin_dtmi # NoDtmi /\ get_twin_by_dtmi(twin_dtmi) = {}
       THEN /\ ret' = [op |-> "add_file_object", exc |-> "ValueError"]
            /\ UNCHANGED file_objects
       ELSE /\ NextId(file_objects) <= MaxFileId
            /\ file_objects' = file_objects \cup
                   {FileObject(NextId(file_objects),
                               IF twin_dtmi = NoDtmi THEN NULL
                               ELSE (CHOOSE t \in twin_nodes : t.dtmi = twin_dtmi).id)}
            /\ ret' = [op |-> "add_file_object", exc |-> "none"]
    /\ UNCHANGED <<twin_nodes, relationship_edges, extracted_objects, stitch_candidates>>

attach_file(file_id, twin_dtmi) ==
    /\ UNCHANGED processVars
    /\ IF get_twin_by_dtmi(twin_dtmi) = {} \/ get_file_object_by_id(file_id) = {}
       THEN /\ ret' = [op |-> "attach_file", exc |-> "ValueError"]
            /\ UNCHANGED file_objects
       ELSE /\ file_objects' = update_file_object(file_id,
                   (CHOOSE t \in twin_nodes : t.dtmi = twin_dtmi).id,
                   NoMediaType, NoVersion)
            /\ ret' = [op |-> "attach_file", exc |-> "none"]
    /\ UNCHANGED <<twin_nodes, relationship_edges, extracted_objects, stitch_candidates>>

detach_file(file_id) ==
    /\ UNCHANGED processVars
    /\ IF get_file_object_by_id(file_id) = {}
       THEN /\ ret' = [op |-> "detach_file", exc |-> "ValueError"]
            /\ UNCHANGED file_objects
       ELSE /\ file_objects' = update_file_object(file_id, NULL, NoMediaType, NoVersion)
            /\ ret' = [op |-> "detach_file", exc |-> "none"]
    /\ UNCHANGED <<twin_nodes, relationship_edges, extracted_objects, stitch_candidates>>

\* repo.update_file_object(file_id, version=..., media_type=...), as the
\* artifacts view and the test call it: twin_id is left at its default None
set_metadata(file_id, media_type, version) ==
    /\ UNCHANGED processVars
    /\ IF get_file_object_by_id(file_id) = {}
       THEN /\ ret' = [op |-> "update_file_object", file_id |-> file_id, value |-> "None"]
            /\ UNCHANGED file_objects
       ELSE /\ file_objects' = update_file_object(file_id, NULL, media_type, version)
            /\ ret' = [op |-> "update_file_object", file_id |-> file_id, value |-> "row"]
    /\ UNCHANGED <<twin_nodes, relationship_edges, extracted_objects, stitch_candidates>>

add_stitch_candidate(file_object_id, extracted_object_id, dt_key, target_dtmi, status) ==
    /\ UNCHANGED processVars
    /\ get_file_object_by_id(file_object_id) # {}
    /\ get_extracted_object_by_id(extracted_object_id) # {}
    /\ NextId(stitch_candidates) <= MaxStitchId
    /\ stitch_candidates' = stitch_candidates \cup
           {[id |-> NextId(stitch_candidates),
             file_object_id |-> file_object_id,
             extracted_object_id |-> extracted_object_id,
             dt_key |-> dt_key, target_dtmi |-> target_dtmi, status |-> status]}
    /\ ret' = [op |-> "add_stitch_candidate"]
    /\ UNCHANGED <<twin_nodes, relationship_edges, file_objects, extracted_objects>>

\* rows of the file with the given status, in rowid order
list_stitch_candidates(file_object_id, status) ==
    SortById({c \in stitch_candidates :
                 c.file_object_id = file_object_id /\ c.status = status})

(***************************************************************************)
(* Specification of the file store: twins, the files attached to them and  *)
(* what the files own.                                                     *)
(***************************************************************************)
FileDtmis == {DtmiA, DtmiB}

NextFiles ==
    \/ \E dtmi \in FileDtmis : create_twin(dtmi)
    \/ \E dtmi \in FileDtmis : delete_twin(dtmi)
    \/ \E dtmi \in FileDtmis \cup {NoDtmi} : add_file_object(dtmi)
    \/ \E f \in 1..MaxFileId, dtmi \in FileDtmis : attach_file(f, dtmi)
    \/ \E f \in 1..MaxFileId : detach_file(f)
    \/ \E f \in 1..MaxFileId :
          add_extracted_object(f, "metadata", [rev |-> 1, dt_keys |-> <<StrItem(KeyP1)>>])
    \/ \E f \in 1..MaxFileId, x \in 1..MaxExtractedId :
          add_stitch_candidate(f, x, KeyP1, NoDtmi, "candidate")

SpecFiles == Init /\ [][NextFiles]_vars

(***************************************************************************)
(* Specification of the file attachment: two twins and two registered      *)
(* files, attached, detached and given a media type and a version.         *)
(***************************************************************************)
InitAttach ==
    /\ ProcessesIdle
    /\ twin_nodes = {TwinNode(1, DtmiA), TwinNode(2, DtmiB)}
    /\ relationship_edges = {}
    /\ file_objects = {FileObject(1, NULL), FileObject(2, NULL)}
    /\ extracted_objects = {}
    /\ stitch_candidates = {}
    /\ ret = [op |-> "init"]

NextAttach ==
    \/ \E f \in 1..3, dtmi \in Dtmis : attach_file(f, dtmi)
    \/ \E f \in 1..3 : detach_file(f)
    \/ \E f \in 1..3, media_type \in {NoMediaType, MediaTypeStep},
          version \in {NoVersion, VersionV1} : set_metadata(f, media_type, version)

SpecAttach == InitAttach /\ [][NextAttach]_vars

(***************************************************************************)
(* Revision diff service                                                   *)
(***************************************************************************)
\* data.get(key) or default
GetOr(data, key, default) == IF key \in DOMAIN data THEN data[key] ELSE default

\* mutant: the isinstance(k, str) filter is missing
_extract_dt_keys_NoTypeFilter(data) ==
    LET keys == GetOr(data, "dt_keys", <<>>)
    IN  {k.v : k \in Range(keys)}

_extract_dt_keys(data) ==
    LET keys == GetOr(data, "dt_keys", <<>>)
    IN  {k.v : k \in {x \in Range(keys) : x.t = "str"}}

\* JSON containers stored under "components", "parts" and "nets": a list of
\* items or a dict; an item of a list is a string, a number or a dict.
ListValue(items) == [t |-> "list", v |-> items]

DictValue(mapping) == [t |-> "dict", v |-> mapping]

DictItem(fields) == [t |-> "dict", v |-> fields]

\* data.get(key) or ... or []: an empty list and an empty dict are falsy
Truthy(data, key) == key \in DOMAIN data /\ data[key].v # <<>>

\* str(x) of a list item: a string is itself, a number its decimal text, a
\* dict its repr ("{}" or "{'ref': ''}", the dicts that reach the fallback)
str(item) ==
    IF item.t # "dict" THEN item.v
    ELSE IF DOMAIN item.v = {} THEN <<123, 125>>
         ELSE <<123, 39, 114, 101, 102, 39, 58, 32, 39, 39, 125>>

\* comp.get("ref") or comp.get("reference"), when that is a string
ComponentRef(comp) ==
    IF "ref" \in DOMAIN comp.v /\ comp.v.ref # <<>> THEN <<comp.v.ref>>
    ELSE IF "reference" \in DOMAIN comp.v THEN <<comp.v.reference>>
         ELSE <<>>

_component_identities(components) ==
    IF components.t # "list" THEN {}
    ELSE {IF x.t = "dict" /\ ComponentRef(x) # <<>> THEN ComponentRef(x)[1] ELSE str(x) :
             x \in Range(components.v)}

\* anything but a list has no identities
_net_identities(nets) ==
    IF nets.t # "list" THEN {}
    ELSE {IF x.t = "dict" /\ "name" \in DOMAIN x.v THEN x.v.name ELSE str(x) :
             x \in Range(nets.v)}

_structural_diff_kicad(old_data, new_data) ==
    LET comps(data) == IF Truthy(data, "components") THEN data.components
                       ELSE IF Truthy(data, "parts") THEN data.parts
                            ELSE ListValue(<<>>)
        nets(data) == IF Truthy(data, "nets") THEN data.nets ELSE ListValue(<<>>)
        old_components == _component_identities(comps(old_data))
        new_components == _component_identities(comps(new_data))
        old_nets == _net_identities(nets(old_data))
        new_nets == _net_identities(nets(new_data))
    IN  [components_added |-> sorted(new_components \ old_components),
         components_removed |-> sorted(old_components \ new_components),
         nets_added |-> sorted(new_nets \ old_nets),
         nets_removed |-> sorted(old_nets \ new_nets)]

\* a tree given as a flat list of scalars: every item is its own path
_flatten_tree_paths(tree) == {x.v : x \in Range(tree)}

_structural_diff_freecad(old_data, new_data) ==
    LET old_paths == _flatten_tree_paths(GetOr(old_data, "tree", <<>>))
        new_paths == _flatten_tree_paths(GetOr(new_data, "tree", <<>>))
    IN  [tree_nodes_added |-> sorted(new_paths \ old_paths),
         tree_nodes_removed |-> sorted(old_paths \ new_paths)]

exclude_keys == {"tool_info", "errors", "timestamp", "created_at", "updated_at"}

\* Top-level keys whose value the payloads keep as a number or as a list of
\* scalars (clean returns such a value as it is); the value of every other
\* key is a tagged dict, list or scalar.
PlainKeys == {"rev", "dt_keys", "tree"}

\* clean of a nested value: a dict loses its volatile keys and has its values
\* cleaned, a list has its items cleaned, a scalar is returned as it is
RECURSIVE clean_value(_)
clean_value(value) ==
    IF value.t = "dict"
    THEN [t |-> "dict",
          v |-> [k \in (DOMAIN value.v) \ exclude_keys |-> clean_value(value.v[k])]]
    ELSE IF value.t = "list"
         THEN [t |-> "list", v |-> [i \in 1..Len(value.v) |-> clean_value(value.v[i])]]
         ELSE value

\* mutant: the volatile keys are removed from the top level only
clean_TopLevelOnly(obj) == [k \in (DOMAIN obj) \ exclude_keys |-> obj[k]]

clean(obj) ==
    [k \in (DOMAIN obj) \ exclude_keys |->
        IF k \in PlainKeys THEN obj[k] ELSE clean_value(obj[k])]

\* mutant: dt_keys is left out of the hashed payload
digest_WithoutDtKeys(obj) == [k \in (DOMAIN clean(obj)) \ {"dt_keys"} |-> clean(obj)[k]]

\* sha256 of the canonical JSON text (sorted keys) of the cleaned payload;
\* the text is stood for by the cleaned payload itself, whose fields carry
\* no order, so two digests are equal exactly when the texts are.
digest(obj) == clean(obj)

_structural_diff_hash(old_data, new_data) ==
    [data_hash_old |-> digest(old_data),
     data_hash_new |-> digest(new_data),
     hash_changed |-> digest(old_data) # digest(new_data)]

_structural_diff(old_obj, new_obj) ==
    IF old_obj.kind # new_obj.kind
    THEN [kind_mismatch |-> [old |-> old_obj.kind, new |-> new_obj.kind]]
    ELSE IF new_obj.kind = "kicad_ecad"
         THEN _structural_diff_kicad(old_obj.data, new_obj.data)
         ELSE IF new_obj.kind = "freecad_tree"
              THEN _structural_diff_freecad(old_obj.data, new_obj.data)
              ELSE _structural_diff_hash(old_obj.data, new_obj.data)

\* mutant: dt_key_added lists every key of the new snapshot
DiffOf_AddedNotSubtracted(old_obj, new_obj) ==
    LET old_keys == _extract_dt_keys(old_obj.data)
        new_keys == _extract_dt_keys(new_obj.data)
    IN  [file_object_id |-> new_obj.file_object_id,
         kind |-> new_obj.kind,
         old_extracted_object_id |-> old_obj.id,
         new_extracted_object_id |-> new_obj.id,
         dt_key_added |-> sorted(new_keys),
         dt_key_removed |-> sorted(old_keys \ new_keys),
         dt_key_unchanged |-> sorted(old_keys \cap new_keys),
         structural |-> _structural_diff(old_obj, new_obj)]

\* mutant: dt_key_removed lists every key of the old snapshot
DiffOf_RemovedNotSubtracted(old_obj, new_obj) ==
    LET old_keys == _extract_dt_keys(old_obj.data)
        new_keys == _extract_dt_keys(new_obj.data)
    IN  [file_object_id |-> new_obj.file_object_id,
         kind |-> new_obj.kind,
         old_extracted_object_id |-> old_obj.id,
         new_extracted_object_id |-> new_obj.id,
         dt_key_added |-> sorted(new_keys \ old_keys),
         dt_key_removed |-> sorted(old_keys),
         dt_key_unchanged |-> sorted(old_keys \cap new_keys),
         structural |-> _structural_diff(old_obj, new_obj)]

\* The RevisionDiffResult for two stored snapshots.
DiffOf(old_obj, new_obj) ==
    LET old_keys == _extract_dt_keys(old_obj.data)
        new_keys == _extract_dt_keys(new_obj.data)
    IN  [file_object_id |-> new_obj.file_object_id,
         kind |-> new_obj.kind,
         old_extracted_object_id |-> old_obj.id,
         new_extracted_object_id |-> new_obj.id,
         dt_key_added |-> sorted(new_keys \ old_keys),
         dt_key_removed |-> sorted(old_keys \ new_keys),
         dt_key_unchanged |-> sorted(old_keys \cap new_keys),
         structural |-> _structural_diff(old_obj, new_obj)]

diff_extracted_objects(old_id, new_id) ==
    /\ UNCHANGED processVars
    /\ IF get_extracted_object_by_id(old_id) = {} \/ get_extracted_object_by_id(new_id) = {}
       THEN ret' = [op |-> "diff_extracted_objects", old_id |-> old_id,
                    new_id |-> new_id, found |-> FALSE]
       ELSE LET old_obj == CHOOSE x \in extracted_objects : x.id = old_id
                new_obj == CHOOSE x \in extracted_objects : x.id = new_id
            IN  ret' = [op |-> "diff_extracted_objects", old_id |-> old_id,
                        new_id |-> new_id, found |-> TRUE,
                        value |-> DiffOf(old_obj, new_obj)]
    /\ UNCHANGED <<twin_nodes, relationship_edges, file_objects,
                   extracted_objects, stitch_candidates>>

(***************************************************************************)
(* Specification of the revision diff service: one registered file with    *)
(* two stored snapshots of any kind and payload, diffed in every pairing   *)
(* (an id without a snapshot included).                                    *)
(***************************************************************************)
InitDiff ==
    /\ ProcessesIdle
    /\ twin_nodes = {}
    /\ relationship_edges = {}
    /\ file_objects = {FileObject(1, NULL)}
    /\ \E k1 \in Kinds, k2 \in Kinds, d1 \in DataUniverse, d2 \in DataUniverse :
          extracted_objects =
              {[id |-> 1, kind |-> k1, data |-> d1, file_object_id |-> 1],
               [id |-> 2, kind |-> k2, data |-> d2, file_object_id |-> 1]}
    /\ stitch_candidates = {}
    /\ ret = [op |-> "init"]

NextDiff ==
    \E old_id \in 1..3, new_id \in 1..3 : diff_extracted_objects(old_id, new_id)

SpecDiff == InitDiff /\ [][NextDiff]_vars

(***************************************************************************)
(* Graph service: neighbours                                               *)
(***************************************************************************)
\* dtmis of the twins at the far end of a list of edges
RECURSIVE EndDtmis(_, _)
EndDtmis(edges, end) ==
    IF edges = <<>> THEN <<>>
    ELSE LET twin_id == IF end = "target" THEN Head(edges).target_id
                        ELSE Head(edges).source_id
         IN  (IF get_twin_by_id(twin_id) # {} THEN <<DtmiOfId(twin_id)>> ELSE <<>>)
             \o EndDtmis(Tail(edges), end)

\* both raise ValueError for an unknown dtmi; the callers below test that first
get_outgoing_neighbors(dtmi) ==
    EndDtmis(get_relationships_for_source(IdOfDtmi(dtmi)), "target")

get_incoming_neighbors(dtmi) ==
    EndDtmis(get_relationships_for_target(IdOfDtmi(dtmi)), "source")

(***************************************************************************)
(* Impact service.  Severity and confidence are in tenths.                 *)
(***************************************************************************)
\* GraphService.list_stitches: the stitch rows of a file with a status
list_stitches(file_object_id, status) == list_stitch_candidates(file_object_id, status)

\* mutant: the accepted and the candidate rows are searched in creation order
_resolve_dtmi_CreationOrder(dt_key, file_object_id) ==
    IF startswith(dt_key, DtmiPrefix)
    THEN [found |-> TRUE, dtmi |-> dt_key, is_direct |-> TRUE]
    ELSE LET stitches == SortById({c \in stitch_candidates :
                                      /\ c.file_object_id = file_object_id
                                      /\ c.status \in {"accepted", "candidate"}})
             hits == {i \in 1..Len(stitches) :
                         stitches[i].dt_key = dt_key /\ stitches[i].target_dtmi # NoDtmi}
         IN  IF hits = {}
             THEN [found |-> FALSE, dtmi |-> NoDtmi, is_direct |-> FALSE]
             ELSE [found |-> TRUE,
                   dtmi |-> stitches[CHOOSE i \in hits : \A j \in hits : i <= j].target_dtmi,
                   is_direct |-> FALSE]

_resolve_dtmi(dt_key, file_object_id) ==
    IF startswith(dt_key, DtmiPrefix)
    THEN [found |-> TRUE, dtmi |-> dt_key, is_direct |-> TRUE]
    ELSE LET stitches == list_stitches(file_object_id, "accepted")
                         \o list_stitches(file_object_id, "candidate")
             hits == {i \in 1..Len(stitches) :
                         stitches[i].dt_key = dt_key /\ stitches[i].target_dtmi # NoDtmi}
         IN  IF hits = {}
             THEN [found |-> FALSE, dtmi |-> NoDtmi, is_direct |-> FALSE]
             ELSE [found |-> TRUE,
                   dtmi |-> stitches[CHOOSE i \in hits : \A j \in hits : i <= j].target_dtmi,
                   is_direct |-> FALSE]

\* mutant: a second evidence adds its severity and confidence to the record
add_impact_Summed(impacted_map, dtmi, severity, confidence, evidence) ==
    IF \E i \in 1..Len(impacted_map) : impacted_map[i].dtmi = dtmi
    THEN [i \in 1..Len(impacted_map) |->
             IF impacted_map[i].dtmi = dtmi
             THEN [impacted_map[i] EXCEPT
                      !.severity = impacted_map[i].severity + severity,
                      !.confidence = impacted_map[i].confidence + confidence,
                      !.evidences = Append(impacted_map[i].evidences, evidence)]
             ELSE impacted_map[i]]
    ELSE Append(impacted_map,
                [dtmi |-> dtmi, severity |-> severity, confidence |-> confidence,
                 evidences |-> <<evidence>>, is_propagated |-> FALSE])

\* impacted_map is kept as the sequence of its records in insertion order
add_impact(impacted_map, dtmi, severity, confidence, evidence) ==
    IF \E i \in 1..Len(impacted_map) : impacted_map[i].dtmi = dtmi
    THEN [i \in 1..Len(impacted_map) |->
             IF impacted_map[i].dtmi = dtmi
             THEN [impacted_map[i] EXCEPT
                      !.severity = Max(impacted_map[i].severity, severity),
                      !.confidence = Max(impacted_map[i].confidence, confidence),
                      !.evidences = Append(impacted_map[i].evidences, evidence)]
             ELSE impacted_map[i]]
    ELSE Append(impacted_map,
                [dtmi |-> dtmi, severity |-> severity, confidence |-> confidence,
                 evidences |-> <<evidence>>, is_propagated |-> FALSE])

\* one of the two loops over dt_key_added / dt_key_removed
RECURSIVE ImpactKeys(_, _, _, _, _, _)
ImpactKeys(impacted_map, dt_keys, kind, severity, file_object_id, source) ==
    IF dt_keys = <<>> THEN impacted_map
    ELSE LET dt_key == Head(dt_keys)
             resolved == _resolve_dtmi(dt_key, file_object_id)
             next_map ==
                 IF ~resolved.found THEN impacted_map
                 ELSE add_impact(impacted_map, resolved.dtmi, severity,
                                 IF resolved.is_direct THEN 9 ELSE 6,
                                 [kind |-> kind, detail |-> dt_key, source |-> source])
         IN  ImpactKeys(next_map, Tail(dt_keys), kind, severity, file_object_id, source)

\* mutant: a kind mismatch is not taken as a structural change
_structural_changed_NoKindMismatch(structural) ==
    IF "hash_changed" \in DOMAIN structural THEN structural.hash_changed
    ELSE IF "kind_mismatch" \in DOMAIN structural THEN FALSE
         ELSE \E key \in DOMAIN structural :
                 \E i \in 1..Len(structural[key]) : structural[key][i] # <<>>

_structural_changed(structural) ==
    IF "hash_changed" \in DOMAIN structural THEN structural.hash_changed
    ELSE IF "kind_mismatch" \in DOMAIN structural THEN TRUE
         ELSE \E key \in DOMAIN structural :
                 \E i \in 1..Len(structural[key]) : structural[key][i] # <<>>

StructuralBump(impacted_map) ==
    [i \in 1..Len(impacted_map) |->
        [impacted_map[i] EXCEPT
            !.severity = Min(10, impacted_map[i].severity + 2),
            !.evidences = Append(impacted_map[i].evidences,
                [kind |-> "structural_change", detail |-> NoDtmi, source |-> NULL])]]

_neighbors(dtmi, directed) ==
    IF get_twin_by_dtmi(dtmi) = {} THEN <<>>
    ELSE get_outgoing_neighbors(dtmi)
         \o (IF directed THEN <<>> ELSE get_incoming_neighbors(dtmi))

\* mutant: a neighbour is skipped only when it is directly impacted
RECURSIVE PropagateNeighbors_NoSeenCheck(_, _, _, _, _)
PropagateNeighbors_NoSeenCheck(propagated_records, neighbors, origin_dtmi, impacted_map, file_object_id) ==
    IF neighbors = <<>> THEN propagated_records
    ELSE LET neighbor == Head(neighbors)
             skip == \E i \in 1..Len(impacted_map) : impacted_map[i].dtmi = neighbor
             next_records ==
                 IF skip THEN propagated_records
                 ELSE Append(propagated_records,
                        [dtmi |-> neighbor, severity |-> 3, confidence |-> 3,
                         evidences |-> <<[kind |-> "propagated", detail |-> origin_dtmi,
                                          source |-> file_object_id]>>,
                         is_propagated |-> TRUE])
         IN  PropagateNeighbors_NoSeenCheck(next_records, Tail(neighbors), origin_dtmi,
                                            impacted_map, file_object_id)

\* the inner loop over the neighbours of one origin
RECURSIVE PropagateNeighbors(_, _, _, _, _)
PropagateNeighbors(propagated_records, neighbors, origin_dtmi, impacted_map, file_object_id) ==
    IF neighbors = <<>> THEN propagated_records
    ELSE LET neighbor == Head(neighbors)
             skip == \/ \E i \in 1..Len(impacted_map) : impacted_map[i].dtmi = neighbor
                     \/ \E i \in 1..Len(propagated_records) :
                           propagated_records[i].dtmi = neighbor
             next_records ==
                 IF skip THEN propagated_records
                 ELSE Append(propagated_records,
                        [dtmi |-> neighbor, severity |-> 3, confidence |-> 3,
                         evidences |-> <<[kind |-> "propagated", detail |-> origin_dtmi,
                                          source |-> file_object_id]>>,
                         is_propagated |-> TRUE])
         IN  PropagateNeighbors(next_records, Tail(neighbors), origin_dtmi,
                                impacted_map, file_object_id)

\* mutant: the failed lookup of an origin without a node ends the loop
RECURSIVE PropagateOrigins_StopsAtFailure(_, _, _, _, _)
PropagateOrigins_StopsAtFailure(propagated_records, origins, impacted_map, directed, file_object_id) ==
    IF origins = <<>> THEN propagated_records
    ELSE IF get_twin_by_dtmi(Head(origins).dtmi) = {} THEN propagated_records
    ELSE PropagateOrigins_StopsAtFailure(
             PropagateNeighbors(propagated_records,
                                _neighbors(Head(origins).dtmi, directed),
                                Head(origins).dtmi, impacted_map, file_object_id),
             Tail(origins), impacted_map, directed, file_object_id)

\* the outer loop over the origins
RECURSIVE PropagateOrigins(_, _, _, _, _)
PropagateOrigins(propagated_records, origins, impacted_map, directed, file_object_id) ==
    IF origins = <<>> THEN propagated_records
    ELSE PropagateOrigins(
             PropagateNeighbors(propagated_records,
                                _neighbors(Head(origins).dtmi, directed),
                                Head(origins).dtmi, impacted_map, file_object_id),
             Tail(origins), impacted_map, directed, file_object_id)

\* mutant: removed keys get the severity of added keys
ImpactOf_RemovedAsAdded(file_object_id, diff, hops, directed) ==
    LET after_added == ImpactKeys(<<>>, diff.dt_key_added, "dt_key_added", 6,
                                  file_object_id, diff.new_extracted_object_id)
        after_removed == ImpactKeys(after_added, diff.dt_key_removed, "dt_key_removed", 6,
                                    file_object_id, diff.new_extracted_object_id)
        impacted_map == IF _structural_changed(diff.structural)
                        THEN StructuralBump(after_removed)
                        ELSE after_removed
        propagated_records ==
            IF hops > 0
            THEN PropagateOrigins(<<>>, impacted_map, impacted_map, directed, file_object_id)
            ELSE <<>>
    IN  [impacted |-> impacted_map, propagated |-> propagated_records]

\* mutant: propagation is also done for hops = 0
ImpactOf_GateAtZero(file_object_id, diff, hops, directed) ==
    LET after_added == ImpactKeys(<<>>, diff.dt_key_added, "dt_key_added", 6,
                                  file_object_id, diff.new_extracted_object_id)
        after_removed == ImpactKeys(after_added, diff.dt_key_removed, "dt_key_removed", 8,
                                    file_object_id, diff.new_extracted_object_id)
        impacted_map == IF _structural_changed(diff.structural)
                        THEN StructuralBump(after_removed)
                        ELSE after_removed
        propagated_records ==
            IF hops >= 0
            THEN PropagateOrigins(<<>>, impacted_map, impacted_map, directed, file_object_id)
            ELSE <<>>
    IN  [impacted |-> impacted_map, propagated |-> propagated_records]

\* The ImpactResult for a diff as the diff service returns it.
ImpactOf(file_object_id, diff, hops, directed) ==
    LET after_added == ImpactKeys(<<>>, diff.dt_key_added, "dt_key_added", 6,
                                  file_object_id, diff.new_extracted_object_id)
        after_removed == ImpactKeys(after_added, diff.dt_key_removed, "dt_key_removed", 8,
                                    file_object_id, diff.new_extracted_object_id)
        impacted_map == IF _structural_changed(diff.structural)
                        THEN StructuralBump(after_removed)
                        ELSE after_removed
        propagated_records ==
            IF hops > 0
            THEN PropagateOrigins(<<>>, impacted_map, impacted_map, directed, file_object_id)
            ELSE <<>>
    IN  [impacted |-> impacted_map, propagated |-> propagated_records]

\* called with the diff of two stored snapshots of the file
compute_impact_from_diff(file_object_id, old_id, new_id, hops, directed) ==
    /\ UNCHANGED processVars
    /\ get_extracted_object_by_id(old_id) # {}
    /\ get_extracted_object_by_id(new_id) # {}
    /\ LET diff == DiffOf(CHOOSE x \in extracted_objects : x.id = old_id,
                          CHOOSE x \in extracted_objects : x.id = new_id)
           result == ImpactOf(file_object_id, diff, hops, directed)
       IN  ret' = [op |-> "compute_impact_from_diff", old_id |-> old_id,
                   new_id |-> new_id, hops |-> hops, directed |-> directed,
                   impacted |-> result.impacted, propagated |-> result.propagated]
    /\ UNCHANGED <<twin_nodes, relationship_edges, file_objects,
                   extracted_objects, stitch_candidates>>

(***************************************************************************)
(* Specification of the impact service: the graph Root -> Neighbor, one    *)
(* file with two snapshots, stitch candidates that accumulate, and the     *)
(* impact of the diff between the snapshots in either direction.           *)
(***************************************************************************)
ImpactKinds == {"kicad_ecad", "metadata"}

\* dt_keys as the extractors store them: sorted(set(...)) of strings
ImpactData ==
    {[rev |-> 1, dt_keys |-> l] :
        l \in {m \in SeqsUpTo({StrItem(DtmiA), StrItem(KeyP1)}, MaxKeys) :
                  \A i \in 1..Len(m) : \A j \in 1..Len(m) :
                      i < j => StrLess(m[i].v, m[j].v)}}

InitImpact ==
    /\ ProcessesIdle
    /\ twin_nodes = {TwinNode(1, DtmiA), TwinNode(2, DtmiB)}
    /\ relationship_edges = {RelationshipEdge(1, 1, 2)}
    /\ file_objects = {FileObject(1, NULL)}
    /\ \E k1 \in ImpactKinds, k2 \in ImpactKinds, d1 \in ImpactData, d2 \in ImpactData :
          extracted_objects =
              {[id |-> 1, kind |-> k1, data |-> d1, file_object_id |-> 1],
               [id |-> 2, kind |-> k2, data |-> d2, file_object_id |-> 1]}
    /\ stitch_candidates = {}
    /\ ret = [op |-> "init"]

NextImpact ==
    \/ \E target \in {DtmiA, DtmiC, NoDtmi}, status \in {"accepted", "candidate"} :
          add_stitch_candidate(1, 2, KeyP1, target, status)
    \/ \E ids \in {<<1, 2>>, <<2, 1>>}, hops \in 0..1, directed \in BOOLEAN :
          compute_impact_from_diff(1, ids[1], ids[2], hops, directed)

SpecImpact == InitImpact /\ [][NextImpact]_vars

(***************************************************************************)
(* Stitch service: candidate generation.  Confidence is in tenths.         *)
(***************************************************************************)
Reverse(s) == [i \in 1..Len(s) |-> s[Len(s) + 1 - i]]

\* snapshots of the file, newest first (ORDER BY id DESC)
list_extracted_objects_for_file(file_object_id) ==
    Reverse(SortById({x \in extracted_objects : x.file_object_id = file_object_id}))

\* mutant: a key is emitted every time it is listed
RECURSIVE CandidatesOfKeys_NoDedupe(_, _, _, _)
CandidatesOfKeys_NoDedupe(candidates, dt_keys, extracted_id, file_object_id) ==
    IF dt_keys = <<>> THEN candidates
    ELSE LET item == Head(dt_keys)
             dt_key == item.v
             is_dtmi == startswith(dt_key, DtmiPrefix)
             candidate ==
                 [file_object_id |-> file_object_id,
                  extracted_object_id |-> extracted_id,
                  dt_key |-> dt_key,
                  target_dtmi |-> IF is_dtmi THEN dt_key ELSE NoDtmi,
                  confidence |-> IF is_dtmi THEN 9 ELSE 3,
                  rationale |-> IF is_dtmi THEN "dt_key looks like DTMI"
                                ELSE "unresolved dt_key",
                  status |-> "candidate"]
             next_candidates ==
                 IF item.t # "str" THEN candidates
                 ELSE Append(candidates, candidate)
         IN  CandidatesOfKeys_NoDedupe(next_candidates, Tail(dt_keys), extracted_id,
                                       file_object_id)

\* the inner loop over the dt_keys of one snapshot; seen_keys holds exactly
\* the (snapshot, key, target) triples of the candidates appended so far
RECURSIVE CandidatesOfKeys(_, _, _, _)
CandidatesOfKeys(candidates, dt_keys, extracted_id, file_object_id) ==
    IF dt_keys = <<>> THEN candidates
    ELSE LET item == Head(dt_keys)
             dt_key == item.v
             is_dtmi == startswith(dt_key, DtmiPrefix)
             candidate ==
                 [file_object_id |-> file_object_id,
                  extracted_object_id |-> extracted_id,
                  dt_key |-> dt_key,
                  target_dtmi |-> IF is_dtmi THEN dt_key ELSE NoDtmi,
                  confidence |-> IF is_dtmi THEN 9 ELSE 3,
                  rationale |-> IF is_dtmi THEN "dt_key looks like DTMI"
                                ELSE "unresolved dt_key",
                  status |-> "candidate"]
             seen == \E i \in 1..Len(candidates) :
                        /\ candidates[i].extracted_object_id = extracted_id
                        /\ candidates[i].dt_key = dt_key
                        /\ candidates[i].target_dtmi = candidate.target_dtmi
             next_candidates ==
                 IF item.t # "str" \/ seen THEN candidates
                 ELSE Append(candidates, candidate)
         IN  CandidatesOfKeys(next_candidates, Tail(dt_keys), extracted_id, file_object_id)

\* the outer loop over the snapshots
RECURSIVE CandidatesOfObjects(_, _, _)
CandidatesOfObjects(candidates, objects, file_object_id) ==
    IF objects = <<>> THEN candidates
    ELSE CandidatesOfObjects(
             CandidatesOfKeys(candidates, GetOr(Head(objects).data, "dt_keys", <<>>),
                              Head(objects).id, file_object_id),
             Tail(objects), file_object_id)

generate_candidates_for_file(file_object_id) ==
    /\ UNCHANGED processVars
    /\ ret' = [op |-> "generate_candidates_for_file",
               file_object_id |-> file_object_id,
               candidates |->
                   IF get_file_object_by_id(file_object_id) = {} THEN <<>>
                   ELSE CandidatesOfObjects(
                            <<>>, list_extracted_objects_for_file(file_object_id),
                            file_object_id)]
    /\ UNCHANGED <<twin_nodes, relationship_edges, file_objects,
                   extracted_objects, stitch_candidates>>

(***************************************************************************)
(* Specification of the stitch generation: two files, two snapshots (the   *)
(* second of either file) whose dt_keys are absent or list strings, with   *)
(* repetitions, and non-strings; candidates are generated for both files   *)
(* and for an id without a file.                                           *)
(***************************************************************************)
StitchData ==
    {[rev |-> 1]} \cup
    {[rev |-> 1, dt_keys |-> l] :
        l \in SeqsUpTo({StrItem(DtmiA), StrItem(KeyP1), IntItem}, MaxKeys)}

InitStitch ==
    /\ ProcessesIdle
    /\ twin_nodes = {}
    /\ relationship_edges = {}
    /\ file_objects = {FileObject(1, NULL), FileObject(2, NULL)}
    /\ \E d1 \in StitchData, d2 \in StitchData, f \in 1..2 :
          extracted_objects =
              {[id |-> 1, kind |-> "metadata", data |-> d1, file_object_id |-> 1],
               [id |-> 2, kind |-> "metadata", data |-> d2, file_object_id |-> f]}
    /\ stitch_candidates = {}
    /\ ret = [op |-> "init"]

NextStitch == \E file_object_id \in 1..3 : generate_candidates_for_file(file_object_id)

SpecStitch == InitStitch /\ [][NextStitch]_vars

(***************************************************************************)
(* The shape of a DTMI: dtmi:<path>;<version>                              *)
(***************************************************************************)
IsDigit(c) == c \in 48..57

IsPathChar(c) == IsDigit(c) \/ c \in 65..90 \/ c \in 97..122 \/ c = 95 \/ c = 58

\* ^dtmi:[A-Za-z0-9_:]+;[1-9][0-9]*$
DTMI_PATTERN(s) ==
    /\ startswith(s, DtmiPrefix)
    /\ \E p \in (Len(DtmiPrefix) + 2)..(Len(s) - 1) :
          /\ s[p] = 59
          /\ \A i \in (Len(DtmiPrefix) + 1)..(p - 1) : IsPathChar(s[i])
          /\ s[p + 1] \in 49..57
          /\ \A i \in (p + 2)..Len(s) : IsDigit(s[i])

(***************************************************************************)
(* Specification of the key shapes: one file whose two snapshots list keys *)
(* with and without the scheme prefix and with and without a valid version *)
(* suffix; the impact of their diff and the generated stitch candidates.   *)
(***************************************************************************)
\* "dtmi:a" and "dtmi:a;0"
DtmiNoVersion == DtmiPrefix \o <<97>>

DtmiZeroVersion == DtmiPrefix \o <<97, 59, 48>>

ShapeData ==
    {[rev |-> 1, dt_keys |-> l] :
        l \in {m \in SeqsUpTo({StrItem(DtmiA), StrItem(DtmiNoVersion),
                               StrItem(DtmiZeroVersion), StrItem(KeyP1)}, MaxKeys) :
                  \A i \in 1..Len(m) : \A j \in 1..Len(m) :
                      i < j => StrLess(m[i].v, m[j].v)}}

InitShape ==
    /\ ProcessesIdle
    /\ twin_nodes = {}
    /\ relationship_edges = {}
    /\ file_objects = {FileObject(1, NULL)}
    /\ \E d1 \in ShapeData, d2 \in ShapeData :
          extracted_objects =
              {[id |-> 1, kind |-> "kicad_ecad", data |-> d1, file_object_id |-> 1],
               [id |-> 2, kind |-> "kicad_ecad", data |-> d2, file_object_id |-> 1]}
    /\ stitch_candidates = {}
    /\ ret = [op |-> "init"]

NextShape ==
    \/ compute_impact_from_diff(1, 1, 2, 0, TRUE)
    \/ generate_candidates_for_file(1)

SpecShape == InitShape /\ [][NextShape]_vars

(***************************************************************************)
(* Specification of the KiCad structural diff: one file with two           *)
(* kicad_ecad snapshots.  The components are a list of dicts with a ref or *)
(* reference (one has the empty ref the extractor stores when it finds     *)
(* none); the nets are a dict keyed by net name, as extract_kicad stores   *)
(* them, or a list of names or of dicts with a name.                       *)
(***************************************************************************)
RefR1 == <<82, 49>>
RefR2 == <<82, 50>>
RefR3 == <<82, 51>>
NetN1 == <<78, 49>>
NetN2 == <<78, 50>>

\* _parse_nets: every net name maps to its connection count
ParsedNets(names) == DictValue([n \in names |-> [connections |-> 1]])

KicadComponents ==
    {ListValue(<<DictItem([ref |-> RefR1]), DictItem([ref |-> RefR2])>>),
     ListValue(<<DictItem([ref |-> RefR2]), DictItem([reference |-> RefR3])>>),
     ListValue(<<DictItem([ref |-> <<>>])>>)}

KicadNets ==
    {ParsedNets(names) : names \in SUBSET {NetN1, NetN2}}
    \cup {ListValue(<<StrItem(NetN1)>>), ListValue(<<StrItem(NetN1), StrItem(NetN2)>>),
          ListValue(<<DictItem([name |-> NetN2])>>)}

KicadData ==
    {[nets |-> n] : n \in KicadNets}
    \cup {[components |-> c, nets |-> n] : c \in KicadComponents, n \in KicadNets}

InitKicad ==
    /\ ProcessesIdle
    /\ twin_nodes = {}
    /\ relationship_edges = {}
    /\ file_objects = {FileObject(1, NULL)}
    /\ \E d1 \in KicadData, d2 \in KicadData :
          extracted_objects =
              {[id |-> 1, kind |-> "kicad_ecad", data |-> d1, file_object_id |-> 1],
               [id |-> 2, kind |-> "kicad_ecad", data |-> d2, file_object_id |-> 1]}
    /\ stitch_candidates = {}
    /\ ret = [op |-> "init"]

NextKicad == \E old_id \in 1..2, new_id \in 1..2 : diff_extracted_objects(old_id, new_id)

SpecKicad == InitKicad /\ [][NextKicad]_vars

(***************************************************************************)
(* Specification of the content hash: one file with two snapshots whose    *)
(* payloads carry a timestamp at the top level, a nested dict with or      *)
(* without created_at, and a list of dicts with or without errors; the     *)
(* kinds are metadata (hashed) or kicad_ecad (not hashed).                 *)
(***************************************************************************)
Merge(r1, r2) ==
    [k \in (DOMAIN r1) \cup (DOMAIN r2) |-> IF k \in DOMAIN r1 THEN r1[k] ELSE r2[k]]

Absent == [k \in {} |-> 0]

StampT1 == StrItem(<<116, 49>>)
StampT2 == StrItem(<<116, 50>>)
AuthorA == StrItem(<<97>>)
AuthorB == StrItem(<<98>>)

HashTimestamps == {Absent, [timestamp |-> StampT1], [timestamp |-> StampT2]}

HashMetas ==
    {Absent,
     [meta |-> DictValue([author |-> AuthorA])],
     [meta |-> DictValue([author |-> AuthorA, created_at |-> StampT1])],
     [meta |-> DictValue([author |-> AuthorA, created_at |-> StampT2])],
     [meta |-> DictValue([author |-> AuthorB, created_at |-> StampT1])]}

HashItems ==
    {Absent,
     [items |-> ListValue(<<DictItem([name |-> AuthorA, errors |-> ListValue(<<>>)])>>)],
     [items |-> ListValue(<<DictItem([name |-> AuthorA,
                                      errors |-> ListValue(<<StampT1>>)])>>)],
     [items |-> ListValue(<<DictItem([name |-> AuthorA]), DictItem([name |-> AuthorB])>>)],
     [items |-> ListValue(<<DictItem([name |-> AuthorB]), DictItem([name |-> AuthorA])>>)]}

HashData ==
    {Merge([rev |-> 1], Merge(t, Merge(m, i))) :
        t \in HashTimestamps, m \in HashMetas, i \in HashItems}

HashSpecKinds == {"metadata", "kicad_ecad"}

InitHash ==
    /\ ProcessesIdle
    /\ twin_nodes = {}
    /\ relationship_edges = {}
    /\ file_objects = {FileObject(1, NULL)}
    /\ \E k1 \in HashSpecKinds, k2 \in HashSpecKinds, d1 \in HashData, d2 \in HashData :
          extracted_objects =
              {[id |-> 1, kind |-> k1, data |-> d1, file_object_id |-> 1],
               [id |-> 2, kind |-> k2, data |-> d2, file_object_id |-> 1]}
    /\ stitch_candidates = {}
    /\ ret = [op |-> "init"]

NextHash == diff_extracted_objects(1, 2)

SpecHash == InitHash /\ [][NextHash]_vars

(***************************************************************************)
(* Specification of the structural bump: the graph Root -> Neighbor, one   *)
(* file with two snapshots of any kind whose payloads differ in keys,      *)
(* components or tree (a component may have the empty identity), and the   *)
(* impact of the diff between the snapshots in either direction.           *)
(***************************************************************************)
StructuralData ==
    LET key_lists == {<<>>, <<StrItem(DtmiA)>>, <<StrItem(DtmiA), StrItem(DtmiB)>>}
        component_lists == {ListValue(<<StrItem(KeyP1)>>), ListValue(<<StrItem(<<>>)>>)}
    IN  {[rev |-> 1, dt_keys |-> l] : l \in key_lists}
        \cup {[rev |-> 1, dt_keys |-> l, components |-> c] :
                 l \in key_lists, c \in component_lists}
        \cup {[rev |-> 1, dt_keys |-> l, tree |-> <<StrItem(KeyP1)>>] : l \in key_lists}

InitStructural ==
    /\ ProcessesIdle
    /\ twin_nodes = {TwinNode(1, DtmiA), TwinNode(2, DtmiB)}
    /\ relationship_edges = {RelationshipEdge(1, 1, 2)}
    /\ file_objects = {FileObject(1, NULL)}
    /\ \E k1 \in Kinds, k2 \in Kinds, d1 \in StructuralData, d2 \in StructuralData :
          extracted_objects =
              {[id |-> 1, kind |-> k1, data |-> d1, file_object_id |-> 1],
               [id |-> 2, kind |-> k2, data |-> d2, file_object_id |-> 1]}
    /\ stitch_candidates = {}
    /\ ret = [op |-> "init"]

NextStructural ==
    \E ids \in {<<1, 2>>, <<2, 1>>}, hops \in 0..1, directed \in BOOLEAN :
        compute_impact_from_diff(1, ids[1], ids[2], hops, directed)

SpecStructural == InitStructural /\ [][NextStructural]_vars

(***************************************************************************)
(* Specification of the propagation: MaxNodes twins with up to MaxEdgeId   *)
(* relationships between any of them, one file whose new snapshot brings   *)
(* DTMI keys of two twins and of a DTMI that has no twin, and the impact   *)
(* of that diff for every hops value and direction.                        *)
(***************************************************************************)
\* "dtmi:0;1": no twin carries it; it sorts before the DTMIs of the twins
DtmiMissing == DtmiPrefix \o <<48, 59, 49>>

\* the new snapshot's dt_keys, as stored (ascending): one origin, two origins,
\* an origin without a twin alone and before an origin with a twin
PropagationData ==
    {[rev |-> 1, dt_keys |-> l] :
        l \in {<<StrItem(DtmiA)>>,
               <<StrItem(DtmiA), StrItem(DtmiB)>>,
               <<StrItem(DtmiMissing)>>,
               <<StrItem(DtmiMissing), StrItem(DtmiA)>>}}

InitPropagation ==
    /\ ProcessesIdle
    /\ twin_nodes = {TwinNode(i, DtmiOfIndex(i)) :
                        i \in 1..MaxNodes}
    /\ \E k \in 0..MaxEdgeId :
          \E ends \in [1..k -> (1..MaxNodes) \X (1..MaxNodes)] :
              relationship_edges =
                  {RelationshipEdge(i, ends[i][1], ends[i][2]) :
                      i \in 1..k}
    /\ file_objects = {FileObject(1, NULL)}
    /\ \E d \in PropagationData :
          extracted_objects =
              {[id |-> 1, kind |-> "kicad_ecad", data |-> [rev |-> 1, dt_keys |-> <<>>],
                file_object_id |-> 1],
               [id |-> 2, kind |-> "kicad_ecad", data |-> d, file_object_id |-> 1]}
    /\ stitch_candidates = {}
    /\ ret = [op |-> "init"]

NextPropagation ==
    \E hops \in (-1)..MaxHops, directed \in BOOLEAN :
        compute_impact_from_diff(1, 1, 2, hops, directed)

SpecPropagation == InitPropagation /\ [][NextPropagation]_vars

(***************************************************************************)
(* File watcher.  The clock counts scan intervals (50 ms in the tests);    *)
(* the content of a file stands for its sha256 digest; a file object's id  *)
(* stands for its path (every registered file has a path of its own).      *)
(* _state is kept in insertion order, the order in which a dict iterates.  *)
(***************************************************************************)
\* config.debounce_ms / 1000.0, in clock units (100 ms)
debounce == 2

MissingPath == 0

NoHash == 0

NoTime == -1

Contents == {1, 2}

\* position of the entry of file_id in _state, 0 if there is none
EntryIndex(st, file_id) ==
    IF \E i \in 1..Len(st) : st[i].file_id = file_id
    THEN CHOOSE i \in 1..Len(st) : st[i].file_id = file_id
    ELSE 0

\* self._state.get(file_id, {}) of a file without entry
NewEntry(file_id) ==
    [file_id |-> file_id, pending_change |-> "None", pending_at |-> NoTime,
     hash |-> NoHash, exists |-> FALSE, last_change |-> "None"]

\* mutant: every detection restarts the debounce timer
_mark_change_AlwaysRestarts(st, file_id, change, at, file_hash) ==
    LET i == EntryIndex(st, file_id)
        entry == IF i = 0 THEN NewEntry(file_id) ELSE st[i]
        updated == [entry EXCEPT !.pending_change = change,
                                 !.pending_at = at,
                                 !.hash = IF file_hash # NoHash THEN file_hash ELSE @,
                                 !.exists = (change # "deleted")]
    IN  IF i = 0 THEN Append(st, updated) ELSE [st EXCEPT ![i] = updated]

\* a change of the kind that is already pending keeps its timestamp
_mark_change(st, file_id, change, at, file_hash) ==
    LET i == EntryIndex(st, file_id)
        entry == IF i = 0 THEN NewEntry(file_id) ELSE st[i]
        ts == IF entry.pending_change = change /\ entry.pending_at # NoTime
              THEN entry.pending_at ELSE at
        updated == [entry EXCEPT !.pending_change = change,
                                 !.pending_at = ts,
                                 !.hash = IF file_hash # NoHash THEN file_hash ELSE @,
                                 !.exists = (change # "deleted")]
    IN  IF i = 0 THEN Append(st, updated) ELSE [st EXCEPT ![i] = updated]

\* `for f in files` of _run: a missing path is marked deleted on every
\* scan; an existing one is marked created when the file has no entry and
\* modified when its hash differs from the stored one
RECURSIVE ScanFiles(_, _, _)
ScanFiles(files, st, at) ==
    IF files = <<>> THEN st
    ELSE LET file_id == Head(files).id
             i == EntryIndex(st, file_id)
             file_hash == fs[file_id]
             st2 == IF fs[file_id] = MissingPath
                    THEN _mark_change(st, file_id, "deleted", at, NoHash)
                    ELSE IF i = 0
                         THEN _mark_change(st, file_id, "created", at, file_hash)
                         ELSE IF st[i].hash # file_hash
                              THEN _mark_change(st, file_id, "modified", at, file_hash)
                              ELSE st
         IN  ScanFiles(Tail(files), st2, at)

\* `for file_id, state in list(self._state.items())` of _run: an entry
\* whose file is no longer listed is marked deleted while it exists
RECURSIVE ScanUnlisted(_, _, _, _)
ScanUnlisted(i, st, seen_ids, at) ==
    IF i > Len(st) THEN st
    ELSE ScanUnlisted(i + 1,
                      IF st[i].file_id \notin seen_ids /\ st[i].exists
                      THEN _mark_change(st, st[i].file_id, "deleted", at, NoHash)
                      ELSE st,
                      seen_ids, at)

\* the entries _flush_ready finds ready, in the order of _state
ReadyIndexes(st, at) ==
    {i \in 1..Len(st) :
        /\ st[i].pending_at # NoTime /\ st[i].pending_change # "None"
        /\ at - st[i].pending_at >= debounce}

\* the subsequence of seq at the positions in idx
RECURSIVE Pick(_, _, _)
Pick(seq, idx, i) ==
    IF i > Len(seq) THEN <<>>
    ELSE (IF i \in idx THEN <<seq[i]>> ELSE <<>>) \o Pick(seq, idx, i + 1)

\* _flush_ready: the state, the events and the jobs after the flush
_flush_ready(st, at) ==
    LET idx == ReadyIndexes(st, at)
        ready == Pick(st, idx, 1)
    IN  [state |-> [i \in 1..Len(st) |->
                       IF i \in idx
                       THEN [st[i] EXCEPT !.pending_change = "None", !.pending_at = NoTime,
                                          !.last_change = st[i].pending_change]
                       ELSE st[i]],
         events |-> [j \in 1..Len(ready) |->
                        [file_id |-> ready[j].file_id, change |-> ready[j].pending_change,
                         at |-> at]],
         jobs |-> [j \in 1..Len(ready) |->
                      [file_id |-> ready[j].file_id, reason |-> ready[j].pending_change,
                       queued_at |-> at, hash |-> ready[j].hash]]]

\* one iteration of `while not self._stop_event.is_set()` in _run, entered
\* `elapsed` clock units after the previous one
_run(elapsed) ==
    /\ now + elapsed <= MaxClock
    /\ now' = now + elapsed
    /\ LET files == SortById(file_objects)
           seen_ids == {f.id : f \in file_objects}
           marked == ScanUnlisted(1, ScanFiles(files, _state, now'), seen_ids, now')
           flushed == _flush_ready(marked, now')
       IN  /\ _state' = flushed.state
           /\ events' = events \o flushed.events
           /\ jobs' = jobs \o flushed.jobs
    /\ UNCHANGED <<twin_nodes, relationship_edges, file_objects, extracted_objects,
                   stitch_candidates, ret, bfs, fs>>

\* the environment writes a file
write_text(path, content) ==
    /\ fs[path] # content
    /\ fs' = [fs EXCEPT ![path] = content]
    /\ UNCHANGED <<twin_nodes, relationship_edges, file_objects, extracted_objects,
                   stitch_candidates, ret, bfs, now, _state, events, jobs>>

\* the environment removes a file
unlink(path) ==
    /\ fs[path] # MissingPath
    /\ fs' = [fs EXCEPT ![path] = MissingPath]
    /\ UNCHANGED <<twin_nodes, relationship_edges, file_objects, extracted_objects,
                   stitch_candidates, ret, bfs, now, _state, events, jobs>>

(***************************************************************************)
(* Specification of the file watcher: WatchedFiles registered files, each  *)
(* present with some content or missing when the watcher starts; the files *)
(* are written and removed while the watcher scans every one or two clock  *)
(* units, up to MaxClock.                                                  *)
(***************************************************************************)
InitWatch ==
    /\ twin_nodes = {}
    /\ relationship_edges = {}
    /\ file_objects = {FileObject(i, NULL) : i \in 1..WatchedFiles}
    /\ extracted_objects = {}
    /\ stitch_candidates = {}
    /\ ret = [op |-> "init"]
    /\ bfs = [pc |-> "idle"]
    /\ fs \in [1..WatchedFiles -> {MissingPath} \cup Contents]
    /\ now = 0
    /\ _state = <<>>
    /\ events = <<>>
    /\ jobs = <<>>

NextWatch ==
    \/ \E elapsed \in 1..2 : _run(elapsed)
    \/ \E path \in 1..WatchedFiles, content \in Contents : write_text(path, content)
    \/ \E path \in 1..WatchedFiles : unlink(path)

SpecWatch == InitWatch /\ [][NextWatch]_vars

(***************************************************************************)
(* DTDL importer.  A model is the parsed JSON object: "@id" (NoDtmi when   *)
(* it is missing), "@type" as its dot-separated segments (NoType when it   *)
(* is missing), "displayName" and the "contents" list.  "@context" is      *)
(* present and every "@id" matches DTMI_PATTERN.                           *)
(***************************************************************************)
NoType == <<>>

TypeInterface == <<"Interface">>

\* "dtdl.Interface"
TypeDottedInterface == <<"dtdl", "Interface">>

TypeRelationship == <<"Relationship">>

TypeProperty == <<"Property">>

\* model.get("displayName") when the key is missing
NoValue == [t |-> "none"]

ContentItem(type, target) == [type |-> type, target |-> target]

DtdlModel(id, type, displayName, contents) ==
    [id |-> id, type |-> type, displayName |-> displayName, contents |-> contents]

\* raw_type == expected or raw_type.endswith("." + expected)
_has_type(model, expected) ==
    \/ model.type = <<expected>>
    \/ Len(model.type) > 1 /\ model.type[Len(model.type)] = expected

RECURSIVE FirstStringFrom(_, _)
FirstStringFrom(items, i) ==
    IF i > Len(items) THEN NoName
    ELSE IF items[i].t = "str" THEN items[i].v
    ELSE FirstStringFrom(items, i + 1)

\* a string is returned as it is, a list gives its first string, anything
\* else None
_first_string(value) ==
    IF value.t = "str" THEN value.v
    ELSE IF value.t = "list" THEN FirstStringFrom(value.v, 1)
    ELSE NoName

\* the last model of the list wins for a repeated "@id"
dtmi_to_model(models) ==
    [dtmi \in {models[i].id : i \in {j \in 1..Len(models) : models[j].id # NoDtmi}} |->
        models[CHOOSE i \in 1..Len(models) :
                  /\ models[i].id = dtmi
                  /\ \A j \in 1..Len(models) : models[j].id = dtmi => j <= i]]

interface_dtmis(models) ==
    {dtmi \in DOMAIN dtmi_to_model(models) :
        _has_type(dtmi_to_model(models)[dtmi], "Interface")}

\* a ValidationIssue; path is the index of the model in the list, -1 for none
ValidationIssue(severity, model_id, code, path) ==
    [severity |-> severity, model_id |-> model_id, code |-> code, path |-> path]

\* issues added while the DTMI map is gathered
RECURSIVE MissingDtmiIssues(_, _)
MissingDtmiIssues(models, i) ==
    IF i > Len(models) THEN <<>>
    ELSE (IF models[i].id = NoDtmi
          THEN <<ValidationIssue("error", NoDtmi, "missing_dtmi", -1)>>
          ELSE <<>>) \o MissingDtmiIssues(models, i + 1)

\* preflight_validate: required keys, duplicate "@id", "@type" without
\* "Interface" among its values
RECURSIVE preflight_validate(_, _)
preflight_validate(models, i) ==
    IF i > Len(models) THEN <<>>
    ELSE LET model == models[i]
             missing_id ==
                 IF model.id = NoDtmi
                 THEN <<ValidationIssue("error", model.id, "missing_key", i - 1)>>
                 ELSE <<>>
             missing_type ==
                 IF model.type = NoType
                 THEN <<ValidationIssue("error", model.id, "missing_key", i - 1)>>
                 ELSE <<>>
             duplicate ==
                 IF model.id # NoDtmi /\ \E j \in 1..(i - 1) : models[j].id = model.id
                 THEN <<ValidationIssue("error", model.id, "duplicate_id", i - 1)>>
                 ELSE <<>>
             not_interface ==
                 IF model.type # NoType /\ model.type # TypeInterface
                 THEN <<ValidationIssue("warning", model.id, "missing_interface_type", i - 1)>>
                 ELSE <<>>
         IN  missing_id \o missing_type \o duplicate \o not_interface
                 \o preflight_validate(models, i + 1)

_issues_payload(issues) ==
    [issues |-> issues,
     is_ok |-> \A i \in 1..Len(issues) : issues[i].severity # "error"]

\* the first loop over interface_dtmis: get_node, then update_twin or
\* create_twin with the display name, then set_node_validation
RECURSIVE UpsertInterfaces(_, _, _, _, _)
UpsertInterfaces(order, i, models, issues, twins) ==
    IF i > Len(order) THEN twins
    ELSE LET dtmi == order[i]
             display_name == _first_string(dtmi_to_model(models)[dtmi].displayName)
             OfNode(issue) == issue.model_id = dtmi
             payload == Some(_issues_payload(SelectSeq(issues, OfNode)))
             upserted ==
                 IF \E t \in twins : t.dtmi = dtmi
                 THEN {IF t.dtmi = dtmi
                       THEN [t EXCEPT !.display_name =
                                IF display_name # NoName THEN display_name ELSE @]
                       ELSE t : t \in twins}
                 ELSE twins \cup
                      {[TwinNode(NextId(twins), dtmi) EXCEPT !.display_name = display_name]}
             validated ==
                 {IF t.dtmi = dtmi THEN [t EXCEPT !.validation = payload] ELSE t :
                     t \in upserted}
         IN  UpsertInterfaces(order, i + 1, models, issues, validated)

\* the Relationship items of a model whose target is a string
RelationshipItems(model) ==
    SelectSeq(model.contents,
              LAMBDA item : _has_type(item, "Relationship") /\ item.target # NoDtmi)

\* the <<source, target>> pairs create_relationship is called with, in the
\* order of the second loop over interface_dtmis
RECURSIVE RelationshipPairs(_, _, _)
RelationshipPairs(order, i, models) ==
    IF i > Len(order) THEN <<>>
    ELSE LET items == RelationshipItems(dtmi_to_model(models)[order[i]])
             kept == SelectSeq(items, LAMBDA item : item.target \in interface_dtmis(models))
         IN  [j \in 1..Len(kept) |-> <<order[i], kept[j].target>>]
                 \o RelationshipPairs(order, i + 1, models)

edges_skipped_missing_target(models) ==
    LET Skipped(dtmi) ==
            Len(SelectSeq(RelationshipItems(dtmi_to_model(models)[dtmi]),
                          LAMBDA item : item.target \notin interface_dtmis(models)))
        RECURSIVE Sum(_)
        Sum(S) == IF S = {} THEN 0
                  ELSE LET d == CHOOSE x \in S : TRUE IN Skipped(d) + Sum(S \ {d})
    IN  Sum(interface_dtmis(models))

\* mutant: the new row replaces the rows that join the same pair
add_relationship_Replace(edges, source_id, target_id) ==
    {e \in edges : ~(e.source_id = source_id /\ e.target_id = target_id)}
        \cup {RelationshipEdge(NextId(edges), source_id, target_id)}

\* a new row on every call
add_relationship(edges, source_id, target_id) ==
    edges \cup {RelationshipEdge(NextId(edges), source_id, target_id)}

RECURSIVE CreateRelationships(_, _, _, _)
CreateRelationships(pairs, i, twins, edges) ==
    IF i > Len(pairs) THEN edges
    ELSE LET source == CHOOSE t \in twins : t.dtmi = pairs[i][1]
             target == CHOOSE t \in twins : t.dtmi = pairs[i][2]
         IN  CreateRelationships(pairs, i + 1, twins,
                                 add_relationship(edges, source.id, target.id))

\* the orders in which a Python set of strings may be iterated
IterationOrders(S) ==
    {order \in [1..Cardinality(S) -> S] :
        \A i, j \in 1..Cardinality(S) : order[i] = order[j] => i = j}

\* import_dtdl on the models loaded from the input path; dotnet_issues are
\* the findings of the external validator, order the iteration order of
\* the set interface_dtmis (the same in both loops).
import_dtdl(models, dotnet_issues, order) ==
    /\ UNCHANGED processVars
    /\ order \in IterationOrders(interface_dtmis(models))
    /\ IF models = <<>>
       THEN /\ UNCHANGED <<twin_nodes, relationship_edges>>
            /\ ret' = [op |-> "import_dtdl", models |-> models,
                       dotnet_issues |-> <<>>,
                       counts |-> [interface_nodes_upserted |-> 0,
                                   relationship_edges_created |-> 0,
                                   edges_skipped_missing_target |-> 0]]
       ELSE LET issues == MissingDtmiIssues(models, 1) \o preflight_validate(models, 1)
                              \o dotnet_issues
                twins == UpsertInterfaces(order, 1, models, issues, twin_nodes)
                pairs == RelationshipPairs(order, 1, models)
                edges == CreateRelationships(pairs, 1, twins, relationship_edges)
            IN  /\ \A t \in twins : t.id <= MaxTwinId
                /\ \A e \in edges : e.id <= MaxImportEdges
                /\ twin_nodes' = twins
                /\ relationship_edges' = edges
                /\ ret' = [op |-> "import_dtdl", models |-> models,
                           dotnet_issues |-> dotnet_issues,
                           counts |-> [interface_nodes_upserted |-> Len(order),
                                       relationship_edges_created |-> Len(pairs),
                                       edges_skipped_missing_target |->
                                           edges_skipped_missing_target(models)]]
    /\ UNCHANGED <<file_objects, extracted_objects, stitch_candidates>>

\* the models of tests/test_dtdl_importer.py and their neighbours
ModelSource == DtdlModel(DtmiA, TypeInterface, NoValue,
                         <<ContentItem(TypeRelationship, DtmiB)>>)

ModelTarget == DtdlModel(DtmiB, TypeInterface, NoValue, <<>>)

ModelDevice == DtdlModel(DtmiA, TypeInterface, StrItem(NameN1), <<>>)

ModelOrphan == DtdlModel(DtmiA, TypeInterface, NoValue,
                         <<ContentItem(TypeRelationship, DtmiC)>>)

ModelInvalid == DtdlModel(DtmiA, NoType, NoValue, <<>>)

ModelNoId == DtdlModel(NoDtmi, TypeInterface, NoValue, <<>>)

ModelDotted == DtdlModel(DtmiB, TypeDottedInterface, ListValue(<<IntItem, StrItem(NameN1)>>),
                         <<ContentItem(TypeProperty, NoDtmi),
                           ContentItem(TypeRelationship, DtmiA),
                           ContentItem(TypeRelationship, DtmiB)>>)

ImportInputs ==
    {<<>>,
     <<ModelSource, ModelTarget>>,
     <<ModelDevice>>,
     <<ModelOrphan>>,
     <<ModelInvalid>>,
     <<ModelNoId, ModelTarget>>,
     <<ModelInvalid, ModelDevice>>,
     <<ModelSource, ModelDotted>>}

\* findings of the external validator: none, or an error on one model
DotnetFindings ==
    {<<>>, <<ValidationIssue("error", DtmiA, "dotnet", -1)>>}

NextImport ==
    \/ \E models \in ImportInputs, dotnet_issues \in DotnetFindings,
          order \in SeqsUpTo({DtmiA, DtmiB}, 2) :
            import_dtdl(models, dotnet_issues, order)
    \/ \E dtmi \in {DtmiA, DtmiB} : delete_twin(dtmi)

SpecImport == Init /\ [][NextImport]_vars

(***************************************************************************)
(* Reference notions for the graph claims: shortest-path distance,         *)
(* defined by layers without any queue.                                    *)
(***************************************************************************)
TwinIds == {t.id : t \in twin_nodes}

NeighborIds(n, directed) ==
    {e.target_id : e \in {x \in relationship_edges : x.source_id = n}}
    \cup (IF directed THEN {}
          ELSE {e.source_id : e \in {x \in relationship_edges : x.target_id = n}})

RECURSIVE ReachWithin(_, _, _)
ReachWithin(start_id, k, directed) ==
    IF k <= 0 THEN {start_id}
    ELSE LET R == ReachWithin(start_id, k - 1, directed)
         IN  R \cup UNION {NeighborIds(n, directed) : n \in R}

\* ids at distance < k from start (empty for k = 0)
ReachBelow(start_id, k, directed) ==
    IF k <= 0 THEN {} ELSE ReachWithin(start_id, k - 1, directed)

NoDuplicates(s) == Cardinality(Range(s)) = Len(s)

SubgraphReturned == ret.op = "get_subgraph" /\ ret.exc = "none"

ExistsEdge(s, t) ==
    \E e \in relationship_edges :
        e.source_id = IdOfDtmi(s) /\ e.target_id = IdOfDtmi(t)

\* the store holds exactly the chain A -> B -> C
IsChainABC ==
    /\ {t.dtmi : t \in twin_nodes} = {DtmiA, DtmiB, DtmiC}
    /\ Cardinality(relationship_edges) = 2
    /\ ExistsEdge(DtmiA, DtmiB)
    /\ ExistsEdge(DtmiB, DtmiC)

(***************************************************************************)
(* C1: every stored edge's source and target are existing nodes;          *)
(* create_relationship with a missing source or target fails with         *)
(* NotFound (ValueError) and adds no edge; delete_twin removes every edge  *)
(* whose source or target is the deleted node.                             *)
(***************************************************************************)
NoDanglingEdge ==
    \A e \in relationship_edges : e.source_id \in TwinIds /\ e.target_id \in TwinIds

MissingEndpointFails ==
    (/\ ret'.op = "create_relationship"
     /\ \/ get_twin_by_dtmi(ret'.source_dtmi) = {}
        \/ get_twin_by_dtmi(ret'.target_dtmi) = {})
    => (ret'.exc = "ValueError" /\ relationship_edges' = relationship_edges)

DeleteRemovesEdges ==
    (ret'.op = "delete_twin" /\ ret'.value)
    => \A e \in relationship_edges' :
          \A t \in get_twin_by_dtmi(ret'.dtmi) :
              e.source_id # t.id /\ e.target_id # t.id

C1_NoDanglingEdges ==
    /\ []NoDanglingEdge
    /\ [][MissingEndpointFails]_vars
    /\ [][DeleteRemovesEdges]_vars

C1_Witness ==
    /\ ret.op = "create_relationship"
    /\ ret.exc = "ValueError"
    /\ twin_nodes # {}
    /\ relationship_edges # {}

(***************************************************************************)
(* C3: the node set returned by get_subgraph is exactly the set of nodes   *)
(* at shortest-path distance <= max_hops from start (outgoing edges only   *)
(* when directed, either direction when undirected); it contains start,    *)
(* and for max_hops = 0 it is {start} with no edges.                       *)
(***************************************************************************)
C3_SubgraphNodesAreBall ==
    SubgraphReturned =>
        /\ Range(ret.nodes) =
               {DtmiOfId(n) : n \in ReachWithin(IdOfDtmi(ret.start_dtmi),
                                                ret.max_hops, ret.directed)}
        /\ NoDuplicates(ret.nodes)
        /\ ret.start_dtmi \in Range(ret.nodes)
        /\ (ret.max_hops = 0 =>
               ret.nodes = <<ret.start_dtmi>> /\ ret.edges = <<>>)

\* a one-hop result that leaves a stored node out
C3_Witness ==
    /\ SubgraphReturned
    /\ ret.max_hops = 1
    /\ Len(ret.nodes) = 2
    /\ Cardinality(twin_nodes) = 3
    /\ Cardinality(relationship_edges) = 2
    /\ \E e \in relationship_edges :
          e.source_id # IdOfDtmi(ret.start_dtmi)
          /\ e.target_id # IdOfDtmi(ret.start_dtmi)

(***************************************************************************)
(* C4: for a fixed graph, start and directed flag, the node set for k      *)
(* hops is a subset of the node set for k + 1 hops.                        *)
(***************************************************************************)
C4_SubgraphMonotone ==
    SubgraphReturned =>
        Range(ret.nodes) \subseteq
            Range(SubgraphOf(ret.start_dtmi, ret.max_hops + 1, ret.directed).nodes)

\* a case where the inclusion is strict
C4_Witness ==
    /\ SubgraphReturned
    /\ ret.max_hops = 1
    /\ Len(ret.nodes) = 2
    /\ Len(SubgraphOf(ret.start_dtmi, 2, ret.directed).nodes) = 3

(***************************************************************************)
(* C5: in directed mode the returned edge set is exactly the set of edges  *)
(* whose source is at BFS depth < max_hops, each edge once; edges leaving  *)
(* the frontier (depth = max_hops) and incoming edges from nodes outside   *)
(* that set are not returned.                                              *)
(***************************************************************************)
C5_DirectedEdges ==
    (SubgraphReturned /\ ret.directed) =>
        /\ Range(ret.edges) =
               {e.id : e \in {x \in relationship_edges :
                    x.source_id \in ReachBelow(IdOfDtmi(ret.start_dtmi),
                                               ret.max_hops, TRUE)}}
        /\ NoDuplicates(ret.edges)

\* one edge collected, one edge leaving the frontier left out
C5_Witness ==
    /\ SubgraphReturned
    /\ ret.directed
    /\ ret.max_hops = 1
    /\ Len(ret.edges) = 1
    /\ \E e \in relationship_edges :
          /\ e.id \notin Range(ret.edges)
          /\ DtmiOfId(e.source_id) \in Range(ret.nodes)

(***************************************************************************)
(* C6: in undirected mode get_subgraph walks every edge to its other       *)
(* endpoint and returns, once each, every edge incident to a node at       *)
(* depth < max_hops, also when the far endpoint was already visited; for   *)
(* the chain A->B->C, get_subgraph(C, 2) is {C} without edges when         *)
(* directed and {A, B, C} with 2 edges when undirected.                    *)
(***************************************************************************)
C6_UndirectedEdges ==
    /\ (SubgraphReturned /\ ~ret.directed) =>
          LET below == ReachBelow(IdOfDtmi(ret.start_dtmi), ret.max_hops, FALSE)
          IN  /\ Range(ret.edges) =
                     {e.id : e \in {x \in relationship_edges :
                          x.source_id \in below \/ x.target_id \in below}}
              /\ NoDuplicates(ret.edges)
              /\ \A e \in relationship_edges :
                    e.id \in Range(ret.edges) =>
                        /\ DtmiOfId(e.source_id) \in Range(ret.nodes)
                        /\ DtmiOfId(e.target_id) \in Range(ret.nodes)
    /\ (SubgraphReturned /\ IsChainABC /\ ret.start_dtmi = DtmiC /\ ret.max_hops = 2) =>
          IF ret.directed
          THEN ret.nodes = <<DtmiC>> /\ ret.edges = <<>>
          ELSE Range(ret.nodes) = {DtmiA, DtmiB, DtmiC} /\ Len(ret.edges) = 2

\* the undirected walk of the chain from its tail
C6_Witness ==
    /\ SubgraphReturned
    /\ ~ret.directed
    /\ IsChainABC
    /\ ret.start_dtmi = DtmiC
    /\ ret.max_hops = 2
    /\ Len(ret.nodes) = 3

\* an edge returned although its far endpoint had been visited before
C6_WitnessVisitedFarEnd ==
    /\ SubgraphReturned
    /\ ~ret.directed
    /\ ret.max_hops = 1
    /\ Len(ret.edges) = 2
    /\ Len(ret.nodes) = 2

(***************************************************************************)
(* Reference notions for the diff claims                                   *)
(***************************************************************************)
DiffReturned == ret.op = "diff_extracted_objects" /\ ret.found

ExtractedById(id) == CHOOSE x \in extracted_objects : x.id = id

\* the strings listed under dt_keys of a stored snapshot
StringKeys(obj) ==
    IF "dt_keys" \notin DOMAIN obj.data THEN {}
    ELSE {obj.data.dt_keys[i].v :
             i \in {j \in 1..Len(obj.data.dt_keys) : obj.data.dt_keys[j].t = "str"}}

\* strictly ascending: sorted and free of duplicates
StrictlyAscending(s) ==
    \A i \in 1..Len(s) : \A j \in 1..Len(s) : i < j => StrLess(s[i], s[j])

IsHashKind(kind) == kind \notin {"kicad_ecad", "freecad_tree"}

(***************************************************************************)
(* C7: diff_extracted_objects returns dt_key_added = keys(new) \ keys(old),*)
(* dt_key_removed = keys(old) \ keys(new), dt_key_unchanged = their        *)
(* intersection; the three sequences are pairwise disjoint, duplicate-free *)
(* and sorted ascending; added + unchanged are the string keys of new,     *)
(* removed + unchanged those of old.                                       *)
(***************************************************************************)
C7_KeyDiffIsSetDifference ==
    DiffReturned =>
        LET old_keys == StringKeys(ExtractedById(ret.old_id))
            new_keys == StringKeys(ExtractedById(ret.new_id))
            added == ret.value.dt_key_added
            removed == ret.value.dt_key_removed
            unchanged == ret.value.dt_key_unchanged
        IN  /\ Range(added) = new_keys \ old_keys
            /\ Range(removed) = old_keys \ new_keys
            /\ Range(unchanged) = old_keys \cap new_keys
            /\ Range(added) \cap Range(removed) = {}
            /\ Range(added) \cap Range(unchanged) = {}
            /\ Range(removed) \cap Range(unchanged) = {}
            /\ StrictlyAscending(added)
            /\ StrictlyAscending(removed)
            /\ StrictlyAscending(unchanged)
            /\ Range(added) \cup Range(unchanged) = new_keys
            /\ Range(removed) \cup Range(unchanged) = old_keys

\* keys added and removed at once, the new list holding a non-string item
C7_Witness ==
    /\ DiffReturned
    /\ ret.value.dt_key_added # <<>>
    /\ ret.value.dt_key_removed # <<>>
    /\ IntItem \in Range(ExtractedById(ret.new_id).data.dt_keys)

\* two keys listed in descending order come out ascending
C7_WitnessSorted ==
    /\ DiffReturned
    /\ ExtractedById(ret.new_id).data = [rev |-> 1,
           dt_keys |-> <<StrItem(KeyP1), StrItem(DtmiA)>>]
    /\ ret.value.dt_key_added = <<DtmiA, KeyP1>>

\* a key listed twice comes out once
C7_WitnessDuplicate ==
    /\ DiffReturned
    /\ ExtractedById(ret.old_id).data = [rev |-> 1,
           dt_keys |-> <<StrItem(KeyP1), StrItem(KeyP1)>>]
    /\ ret.value.dt_key_removed = <<KeyP1>>

(***************************************************************************)
(* C8: diffing a snapshot against itself yields empty dt_key_added and     *)
(* dt_key_removed, dt_key_unchanged equal to all of its keys, and for      *)
(* hash-based kinds hash_changed = false with equal hashes.                *)
(***************************************************************************)
C8_SelfDiffIsEmpty ==
    (DiffReturned /\ ret.old_id = ret.new_id) =>
        /\ ret.value.dt_key_added = <<>>
        /\ ret.value.dt_key_removed = <<>>
        /\ Range(ret.value.dt_key_unchanged) = StringKeys(ExtractedById(ret.old_id))
        /\ Len(ret.value.dt_key_unchanged) =
               Cardinality(StringKeys(ExtractedById(ret.old_id)))
        /\ IsHashKind(ret.value.kind) =>
               /\ ret.value.structural.hash_changed = FALSE
               /\ ret.value.structural.data_hash_old = ret.value.structural.data_hash_new

C8_Witness ==
    /\ DiffReturned
    /\ ret.old_id = ret.new_id
    /\ IsHashKind(ret.value.kind)
    /\ Len(ret.value.dt_key_unchanged) = 2

(***************************************************************************)
(* C9: dt_key_added of diff(old, new) equals dt_key_removed of             *)
(* diff(new, old), and dt_key_unchanged is the same in both directions.    *)
(***************************************************************************)
C9_DiffAntisymmetry ==
    DiffReturned =>
        LET back == DiffOf(ExtractedById(ret.new_id), ExtractedById(ret.old_id))
        IN  /\ ret.value.dt_key_added = back.dt_key_removed
            /\ ret.value.dt_key_removed = back.dt_key_added
            /\ ret.value.dt_key_unchanged = back.dt_key_unchanged

C9_Witness ==
    /\ DiffReturned
    /\ ret.old_id # ret.new_id
    /\ ret.value.dt_key_added # <<>>
    /\ ret.value.dt_key_unchanged # <<>>

(***************************************************************************)
(* C2: delete_twin on a node that has a file object attached keeps that    *)
(* file object in the store and sets its twin reference to null; the file  *)
(* object, its extracted snapshots and its stitch candidates are not       *)
(* deleted together with the node.                                         *)
(***************************************************************************)
DeleteKeepsFiles ==
    (ret'.op = "delete_twin" /\ ret'.value) =>
        /\ file_objects' =
               {IF f.twin_id \in TwinIds \ {t.id : t \in twin_nodes'}
                THEN [f EXCEPT !.twin_id = NULL] ELSE f : f \in file_objects}
        /\ extracted_objects' = extracted_objects
        /\ stitch_candidates' = stitch_candidates

C2_DeleteTwinKeepsFile == [][DeleteKeepsFiles]_vars

(***************************************************************************)
(* Reference notions for the impact claims                                 *)
(***************************************************************************)
ImpactReturned == ret.op = "compute_impact_from_diff"

AddedKeys == StringKeys(ExtractedById(ret.new_id)) \ StringKeys(ExtractedById(ret.old_id))

RemovedKeys == StringKeys(ExtractedById(ret.old_id)) \ StringKeys(ExtractedById(ret.new_id))

\* the changed keys that resolve to the given dtmi
KeysResolvingTo(dtmi) ==
    {k \in AddedKeys \cup RemovedKeys :
        _resolve_dtmi(k, 1).found /\ _resolve_dtmi(k, 1).dtmi = dtmi}

\* the two snapshots show no structural change: same kind, and equal
\* payloads unless the kind is compared by components and nets (of which
\* these snapshots have none)
NoStructuralChange ==
    LET old_obj == ExtractedById(ret.old_id)
        new_obj == ExtractedById(ret.new_id)
    IN  /\ old_obj.kind = new_obj.kind
        /\ (old_obj.kind = "kicad_ecad" \/ old_obj.data = new_obj.data)

ImpactedDtmis == {ret.impacted[i].dtmi : i \in 1..Len(ret.impacted)}

(***************************************************************************)
(* C10: every resolved key of dt_key_added gets a record with severity     *)
(* 0.6, every resolved key of dt_key_removed one with severity 0.8;        *)
(* confidence is 0.9 for a key that is itself a DTMI and 0.6 for a key     *)
(* resolved through a stitch mapping; a key that does not resolve produces *)
(* no record.  These are the values a record carries when one key resolves *)
(* to its DTMI and no structural change is indicated; merging and the      *)
(* structural bump can only raise them.  Keys [] -> [DtmiA] without        *)
(* structural change give one record: severity 0.6, confidence 0.9, one    *)
(* dt_key_added evidence.                                                  *)
(***************************************************************************)
C10_BaseSeverityConfidence ==
    ImpactReturned =>
        /\ ImpactedDtmis =
               {_resolve_dtmi(k, 1).dtmi :
                    k \in {x \in AddedKeys \cup RemovedKeys : _resolve_dtmi(x, 1).found}}
        /\ Cardinality(ImpactedDtmis) = Len(ret.impacted)
        /\ \A i \in 1..Len(ret.impacted) :
              LET r == ret.impacted[i]
              IN  /\ ~r.is_propagated
                  /\ \A k \in KeysResolvingTo(r.dtmi) :
                        LET base_severity == IF k \in AddedKeys THEN 6 ELSE 8
                            base_confidence == IF startswith(k, DtmiPrefix) THEN 9 ELSE 6
                            kind == IF k \in AddedKeys THEN "dt_key_added"
                                    ELSE "dt_key_removed"
                        IN  /\ r.severity >= base_severity
                            /\ r.confidence >= base_confidence
                            /\ [kind |-> kind, detail |-> k, source |-> ret.new_id]
                                   \in Range(r.evidences)
                            /\ (NoStructuralChange /\ KeysResolvingTo(r.dtmi) = {k}) =>
                                  /\ r.severity = base_severity
                                  /\ r.confidence = base_confidence
                                  /\ r.evidences = <<[kind |-> kind, detail |-> k,
                                                      source |-> ret.new_id]>>
        /\ (/\ NoStructuralChange
            /\ StringKeys(ExtractedById(ret.old_id)) = {}
            /\ StringKeys(ExtractedById(ret.new_id)) = {DtmiA}) =>
               ret.impacted = <<[dtmi |-> DtmiA, severity |-> 6, confidence |-> 9,
                                 evidences |-> <<[kind |-> "dt_key_added", detail |-> DtmiA,
                                                  source |-> ret.new_id]>>,
                                 is_propagated |-> FALSE]>>

\* the example: keys [] -> [DtmiA], no structural change
C10_Witness ==
    /\ ImpactReturned
    /\ NoStructuralChange
    /\ StringKeys(ExtractedById(ret.old_id)) = {}
    /\ StringKeys(ExtractedById(ret.new_id)) = {DtmiA}
    /\ Len(ret.impacted) = 1

\* a removed key resolved through a stitch mapping: severity 0.8, confidence 0.6
C10_WitnessIndirectRemoved ==
    /\ ImpactReturned
    /\ NoStructuralChange
    /\ KeyP1 \in RemovedKeys
    /\ \E i \in 1..Len(ret.impacted) :
          /\ ret.impacted[i].dtmi = DtmiC
          /\ ret.impacted[i].severity = 8
          /\ ret.impacted[i].confidence = 6

\* a changed key that does not resolve leaves no record
C10_WitnessUnresolved ==
    /\ ImpactReturned
    /\ AddedKeys = {KeyP1}
    /\ RemovedKeys = {}
    /\ ret.impacted = <<>>
    /\ stitch_candidates # {}

(***************************************************************************)
(* Reference notions for the merge of evidences                            *)
(***************************************************************************)
BaseSeverity(k) == IF k \in AddedKeys THEN 6 ELSE 8

BaseConfidence(k) == IF startswith(k, DtmiPrefix) THEN 9 ELSE 6

MaxOf(S) == CHOOSE m \in S : \A x \in S : x <= m

\* the evidences of the given keys, in the order of the key sequence
RECURSIVE KeyEvidences(_, _)
KeyEvidences(keys, kind) ==
    IF keys = <<>> THEN <<>>
    ELSE <<[kind |-> kind, detail |-> Head(keys), source |-> ret.new_id]>>
         \o KeyEvidences(Tail(keys), kind)

\* processing order: the added keys ascending, then the removed keys ascending
ContributingEvidences(dtmi) ==
    KeyEvidences(sorted(AddedKeys \cap KeysResolvingTo(dtmi)), "dt_key_added")
    \o KeyEvidences(sorted(RemovedKeys \cap KeysResolvingTo(dtmi)), "dt_key_removed")

StructuralEvidence == [kind |-> "structural_change", detail |-> NoDtmi, source |-> NULL]

SeverityOfEvidence(e) == IF e.kind = "dt_key_added" THEN 6 ELSE 8

(***************************************************************************)
(* Reference notions for the structural bump                               *)
(***************************************************************************)
\* the structural section of the diff the impact was computed from
StructuralSection ==
    DiffOf(ExtractedById(ret.old_id), ExtractedById(ret.new_id)).structural

\* hash_changed if that flag is present; otherwise a kind_mismatch key, or a
\* list field that holds a truthy (non-empty) item
IndicatesChange(st) ==
    IF "hash_changed" \in DOMAIN st THEN st.hash_changed = TRUE
    ELSE \/ "kind_mismatch" \in DOMAIN st
         \/ /\ "kind_mismatch" \notin DOMAIN st
            /\ \E f \in DOMAIN st : \E x \in Range(st[f]) : x # <<>>

CountKind(evidences, kind) ==
    Cardinality({j \in 1..Len(evidences) : evidences[j].kind = kind})

(***************************************************************************)
(* C11: keys that resolve to the same DTMI are merged into one impacted    *)
(* record.  Its severity and its confidence are each the maximum over the  *)
(* contributing evidences (the severity raised by the structural bump when *)
(* a structural change is indicated), never a sum or an average, and its   *)
(* evidence list has one entry per contributing key in processing order.   *)
(* Registering one of its evidences a second time leaves severity and      *)
(* confidence unchanged and makes the evidence list one entry longer.      *)
(***************************************************************************)
C11_MergeTakesMaximum ==
    ImpactReturned =>
        /\ NoDuplicates([i \in 1..Len(ret.impacted) |-> ret.impacted[i].dtmi])
        /\ \A i \in 1..Len(ret.impacted) :
              LET r == ret.impacted[i]
                  K == KeysResolvingTo(r.dtmi)
                  max_severity == MaxOf({BaseSeverity(k) : k \in K})
                  max_confidence == MaxOf({BaseConfidence(k) : k \in K})
              IN  /\ K # {}
                  /\ r.confidence = max_confidence
                  /\ r.severity = IF ~IndicatesChange(StructuralSection) THEN max_severity
                                  ELSE Min(10, max_severity + 2)
                  /\ r.evidences = ContributingEvidences(r.dtmi)
                         \o (IF ~IndicatesChange(StructuralSection) THEN <<>>
                             ELSE <<StructuralEvidence>>)
                  /\ \A j \in 1..Len(ContributingEvidences(r.dtmi)) :
                        LET e == r.evidences[j]
                            again == add_impact(ret.impacted, r.dtmi, SeverityOfEvidence(e),
                                                BaseConfidence(e.detail), e)
                        IN  /\ Len(again) = Len(ret.impacted)
                            /\ again[i].severity = r.severity
                            /\ again[i].confidence = r.confidence
                            /\ again[i].evidences = Append(r.evidences, e)
                            /\ \A n \in 1..Len(again) : n # i => again[n] = ret.impacted[n]

\* an added DTMI key and a removed stitched key meet in one record: severity
\* max(0.6, 0.8), confidence max(0.9, 0.6), two evidences
C11_Witness ==
    /\ ImpactReturned
    /\ NoStructuralChange
    /\ AddedKeys = {DtmiA}
    /\ RemovedKeys = {KeyP1}
    /\ ret.impacted = <<[dtmi |-> DtmiA, severity |-> 8, confidence |-> 9,
                         evidences |-> <<[kind |-> "dt_key_added", detail |-> DtmiA,
                                          source |-> ret.new_id],
                                         [kind |-> "dt_key_removed", detail |-> KeyP1,
                                          source |-> ret.new_id]>>,
                         is_propagated |-> FALSE]>>

C12_WitnessKindMismatch ==
    /\ ImpactReturned
    /\ "kind_mismatch" \in DOMAIN StructuralSection
    /\ AddedKeys = {DtmiB}
    /\ Len(ret.impacted) = 1
    /\ ret.impacted[1].severity = 8

\* a component list that differs bumps; the same components with changed
\* keys do not
C12_WitnessComponents ==
    /\ ImpactReturned
    /\ "components_added" \in DOMAIN StructuralSection
    /\ StructuralSection.components_added = <<KeyP1>>
    /\ AddedKeys = {DtmiA}
    /\ ret.impacted[1].severity = 8

C12_WitnessNoChange ==
    /\ ImpactReturned
    /\ "components_added" \in DOMAIN StructuralSection
    /\ ~IndicatesChange(StructuralSection)
    /\ RemovedKeys = {DtmiA}
    /\ Len(ret.impacted) = 1
    /\ ret.impacted[1].severity = 8
    /\ Len(ret.impacted[1].evidences) = 1

\* the only added component has the empty identity: no item of the list is
\* truthy and no bump is applied
C12_WitnessEmptyIdentity ==
    /\ ImpactReturned
    /\ "components_added" \in DOMAIN StructuralSection
    /\ StructuralSection.components_added = <<NoDtmi>>
    /\ StructuralSection.components_removed = <<>>
    /\ AddedKeys = {DtmiA}
    /\ ret.impacted[1].severity = 6

(***************************************************************************)
(* Reference notions for the propagation claims                            *)
(***************************************************************************)
PropagatedDtmis == {ret.propagated[i].dtmi : i \in 1..Len(ret.propagated)}

HasTwin(dtmi) == \E t \in twin_nodes : t.dtmi = dtmi

TwinIdOf(dtmi) == CHOOSE n \in TwinIds : \E t \in twin_nodes : t.id = n /\ t.dtmi = dtmi

\* dtmis of the graph neighbours of a DTMI; none when it has no twin
NeighborDtmis(dtmi, directed) ==
    IF ~HasTwin(dtmi) THEN {}
    ELSE {t.dtmi : t \in {x \in twin_nodes : x.id \in NeighborIds(TwinIdOf(dtmi), directed)}}

(***************************************************************************)
(* C13: with hops > 0 the propagated DTMIs are exactly the neighbours      *)
(* (outgoing when directed, outgoing and incoming otherwise) of directly   *)
(* impacted DTMIs that are not directly impacted themselves.  No DTMI is   *)
(* in both lists, each propagated DTMI appears once, and each propagated   *)
(* record has severity 0.3, confidence 0.3, is_propagated = true and one   *)
(* evidence, which names an origin it neighbours.                          *)
(***************************************************************************)
C13_PropagatedAreNeighbours ==
    (ImpactReturned /\ ret.hops > 0) =>
        /\ PropagatedDtmis =
               (UNION {NeighborDtmis(d, ret.directed) : d \in ImpactedDtmis})
               \ ImpactedDtmis
        /\ PropagatedDtmis \cap ImpactedDtmis = {}
        /\ NoDuplicates([i \in 1..Len(ret.propagated) |-> ret.propagated[i].dtmi])
        /\ \A i \in 1..Len(ret.propagated) :
              LET p == ret.propagated[i]
              IN  /\ p.severity = 3
                  /\ p.confidence = 3
                  /\ p.is_propagated
                  /\ Len(p.evidences) = 1
                  /\ p.evidences[1].kind = "propagated"
                  /\ p.evidences[1].source = 1
                  /\ p.evidences[1].detail \in ImpactedDtmis
                  /\ p.dtmi \in NeighborDtmis(p.evidences[1].detail, ret.directed)

\* the third twin neighbours both origins and is propagated once
C13_Witness ==
    /\ ImpactReturned
    /\ ret.hops = 1
    /\ ret.directed
    /\ ImpactedDtmis = {DtmiA, DtmiB}
    /\ ExistsEdge(DtmiA, DtmiC)
    /\ ExistsEdge(DtmiB, DtmiC)
    /\ ret.propagated = <<[dtmi |-> DtmiC, severity |-> 3, confidence |-> 3,
                           evidences |-> <<[kind |-> "propagated", detail |-> DtmiA,
                                            source |-> 1]>>,
                           is_propagated |-> TRUE]>>

\* two parallel edges to the same neighbour
C13_WitnessParallel ==
    /\ ImpactReturned
    /\ ret.hops = 1
    /\ ImpactedDtmis = {DtmiA}
    /\ Cardinality({e \in relationship_edges : e.source_id = 1 /\ e.target_id = 2}) = 2
    /\ Len(ret.propagated) = 1

\* an incoming neighbour, reached only in undirected mode; an edge between
\* the two origins propagates nothing
C13_WitnessIncoming ==
    /\ ImpactReturned
    /\ ret.hops = 1
    /\ ~ret.directed
    /\ ImpactedDtmis = {DtmiA, DtmiB}
    /\ relationship_edges = {RelationshipEdge(1, 3, 1),
                             RelationshipEdge(2, 1, 2)}
    /\ PropagatedDtmis = {DtmiC}

(***************************************************************************)
(* C14: hops is only a gate.  With hops <= 0 nothing is propagated; for    *)
(* every hops >= 1 the result is the one for hops = 1, so every propagated *)
(* DTMI is a direct neighbour of an origin and a node at distance 2 or     *)
(* more from every origin is never propagated.                             *)
(***************************************************************************)
C14_HopsIsGate ==
    ImpactReturned =>
        LET diff == DiffOf(ExtractedById(ret.old_id), ExtractedById(ret.new_id))
            one_hop == ImpactOf(1, diff, 1, ret.directed)
        IN  /\ ret.hops <= 0 => ret.propagated = <<>>
            /\ ret.hops >= 1 => /\ ret.impacted = one_hop.impacted
                                /\ ret.propagated = one_hop.propagated
            /\ ret.impacted = one_hop.impacted
            /\ \A p \in PropagatedDtmis :
                  \E d \in ImpactedDtmis : p \in NeighborDtmis(d, ret.directed)

\* on the chain A -> B -> C with origin A and hops = 2, only B is propagated
C14_Witness ==
    /\ ImpactReturned
    /\ ret.hops = 2
    /\ ret.directed
    /\ ImpactedDtmis = {DtmiA}
    /\ IsChainABC
    /\ PropagatedDtmis = {DtmiB}

\* the same origin and graph with hops = 0: nothing is propagated
C14_WitnessNoHops ==
    /\ ImpactReturned
    /\ ret.hops = 0
    /\ ImpactedDtmis = {DtmiA}
    /\ IsChainABC
    /\ ret.propagated = <<>>

(***************************************************************************)
(* C18: a directly impacted DTMI that has no twin in the graph makes the   *)
(* neighbour lookup fail; the failure is swallowed.  The record of that    *)
(* DTMI is still returned, it contributes no propagated record, and the    *)
(* origins that have a twin propagate as they do without it.               *)
(***************************************************************************)
C18_LookupFailureSwallowed ==
    ImpactReturned =>
        /\ ImpactedDtmis = AddedKeys
        /\ \A i \in 1..Len(ret.propagated) :
              HasTwin(ret.propagated[i].evidences[1].detail)
        /\ (ret.hops > 0) =>
              (PropagatedDtmis =
                  (UNION {NeighborDtmis(d, ret.directed) :
                             d \in {x \in ImpactedDtmis : HasTwin(x)}})
                  \ ImpactedDtmis)

\* the origin without a twin is processed first; the origin A after it still
\* propagates to its neighbour B
C18_Witness ==
    /\ ImpactReturned
    /\ ret.hops = 1
    /\ ~HasTwin(DtmiMissing)
    /\ Len(ret.impacted) = 2
    /\ ret.impacted[1].dtmi = DtmiMissing
    /\ ret.impacted[2].dtmi = DtmiA
    /\ ExistsEdge(DtmiA, DtmiB)
    /\ DtmiB \in PropagatedDtmis

\* the only origin has no twin: its record is returned, nothing is propagated
C18_WitnessAlone ==
    /\ ImpactReturned
    /\ ret.hops = 1
    /\ ImpactedDtmis = {DtmiMissing}
    /\ relationship_edges # {}
    /\ ret.propagated = <<>>

(***************************************************************************)
(* C15: a key is treated as a canonical node identifier (resolved to       *)
(* itself as direct with confidence 0.9 by the impact resolution, mapped   *)
(* to itself with confidence 0.9 by the stitch generation) only if it      *)
(* begins with "dtmi:" and ends in a semicolon and a positive-integer      *)
(* version; every other string is an artifact-local key, which without a   *)
(* stitch mapping leaves no impact record and gets a candidate with a null *)
(* target.                                                                 *)
(***************************************************************************)
C15_CanonicalOnlyIfDtmiShaped ==
    /\ ImpactReturned =>
          \A i \in 1..Len(ret.impacted) :
              \A j \in 1..Len(ret.impacted[i].evidences) :
                  DTMI_PATTERN(ret.impacted[i].evidences[j].detail)
    /\ ret.op = "generate_candidates_for_file" =>
          \A i \in 1..Len(ret.candidates) :
              LET c == ret.candidates[i]
              IN  IF DTMI_PATTERN(c.dt_key)
                  THEN c.target_dtmi = c.dt_key /\ c.confidence = 9
                  ELSE c.target_dtmi = NoDtmi /\ c.confidence = 3

(***************************************************************************)
(* Reference notions for the stitch resolution                             *)
(***************************************************************************)
\* the non-null targets the mappings of a status give to a key of file 1
MappedTargets(dt_key, status) ==
    {c.target_dtmi : c \in {x \in stitch_candidates :
                               /\ x.file_object_id = 1
                               /\ x.status = status
                               /\ x.dt_key = dt_key
                               /\ x.target_dtmi # NoDtmi}}

\* the DTMIs of the impacted records that carry an evidence of the key
RecordsOfKey(dt_key) ==
    {ret.impacted[i].dtmi :
        i \in {n \in 1..Len(ret.impacted) :
                  \E j \in 1..Len(ret.impacted[n].evidences) :
                      ret.impacted[n].evidences[j].detail = dt_key}}

ChangedLocalKeys == {k \in AddedKeys \cup RemovedKeys : ~startswith(k, DtmiPrefix)}

(***************************************************************************)
(* C16: only accepted stitch mappings are authoritative for the impact     *)
(* resolution: a changed key without the scheme prefix that has no         *)
(* accepted mapping with a non-null target contributes no impact record.   *)
(***************************************************************************)
C16_OnlyAcceptedResolve ==
    ImpactReturned =>
        \A k \in ChangedLocalKeys :
            MappedTargets(k, "accepted") = {} => RecordsOfKey(k) = {}

(***************************************************************************)
(* C17: a changed key without the scheme prefix that has an accepted       *)
(* mapping with a non-null target resolves to an accepted target, also     *)
(* when a candidate mapping with another target was created before it; a   *)
(* mapping with a null target is never used: no record has a null DTMI,    *)
(* and a key all of whose mappings have a null target leaves no record.    *)
(***************************************************************************)
C17_AcceptedTakesPrecedence ==
    ImpactReturned =>
        /\ \A k \in ChangedLocalKeys :
              /\ MappedTargets(k, "accepted") # {} =>
                    /\ Cardinality(RecordsOfKey(k)) = 1
                    /\ RecordsOfKey(k) \subseteq MappedTargets(k, "accepted")
              /\ (MappedTargets(k, "accepted") \cup MappedTargets(k, "candidate") = {}) =>
                    RecordsOfKey(k) = {}
        /\ NoDtmi \notin ImpactedDtmis

\* the candidate mapping to C was created before the accepted mapping to A
C17_Witness ==
    /\ ImpactReturned
    /\ KeyP1 \in AddedKeys
    /\ \E c \in stitch_candidates :
          c.id = 1 /\ c.status = "candidate" /\ c.dt_key = KeyP1 /\ c.target_dtmi = DtmiC
    /\ \E c \in stitch_candidates :
          c.id = 2 /\ c.status = "accepted" /\ c.dt_key = KeyP1 /\ c.target_dtmi = DtmiA
    /\ RecordsOfKey(KeyP1) = {DtmiA}

\* the accepted mapping was created first
C17_WitnessAcceptedFirst ==
    /\ ImpactReturned
    /\ KeyP1 \in RemovedKeys
    /\ \E c \in stitch_candidates :
          c.id = 1 /\ c.status = "accepted" /\ c.dt_key = KeyP1 /\ c.target_dtmi = DtmiC
    /\ \E c \in stitch_candidates :
          c.id = 2 /\ c.status = "candidate" /\ c.dt_key = KeyP1 /\ c.target_dtmi = DtmiA
    /\ RecordsOfKey(KeyP1) = {DtmiC}

\* an accepted mapping with a null target is passed over
C17_WitnessNullTarget ==
    /\ ImpactReturned
    /\ KeyP1 \in AddedKeys
    /\ \E c \in stitch_candidates :
          c.status = "accepted" /\ c.dt_key = KeyP1 /\ c.target_dtmi = NoDtmi
    /\ MappedTargets(KeyP1, "accepted") \cup MappedTargets(KeyP1, "candidate") = {}
    /\ ret.impacted = <<>>

C19_WitnessTwoSnapshots ==
    /\ ret.op = "generate_candidates_for_file"
    /\ ret.file_object_id = 1
    /\ ExtractedById(2).file_object_id = 1
    /\ StringKeys(ExtractedById(1)) = {DtmiA}
    /\ StringKeys(ExtractedById(2)) = {DtmiA}
    /\ Len(ret.candidates) = 2

\* an id without a file
C19_WitnessUnknownFile ==
    /\ ret.op = "generate_candidates_for_file"
    /\ ret.file_object_id = 3
    /\ ret.candidates = <<>>

(***************************************************************************)
(* C20: after any sequence of create_twin, update_twin and delete_twin no  *)
(* two nodes share a dtmi.  create_twin with a dtmi that exists fails with *)
(* the integrity error of the unique constraint and leaves the store       *)
(* unchanged: the existing node keeps its id and its fields, and the       *)
(* operation that follows on the same session succeeds or fails as the     *)
(* store alone decides.                                                    *)
(***************************************************************************)
UniqueDtmi ==
    \A t1 \in twin_nodes, t2 \in twin_nodes : t1.dtmi = t2.dtmi => t1 = t2

DuplicateCreateFails ==
    \A dtmi \in Dtmis :
        (create_twin(dtmi) /\ get_twin_by_dtmi(dtmi) # {}) =>
            /\ ret'.exc = "IntegrityError"
            /\ twin_nodes' = twin_nodes
            /\ relationship_edges' = relationship_edges

OperationAfterFailure ==
    (ret.op = "create_twin" /\ ret.exc = "IntegrityError") =>
        /\ ret'.op = "update_twin" =>
              (ret'.exc = "none" <=> get_twin_by_dtmi(ret'.dtmi) # {})
        /\ ret'.op = "create_twin" =>
              (ret'.exc = "none" <=> get_twin_by_dtmi(ret'.dtmi) = {})

C20_DtmiUnique ==
    /\ []UniqueDtmi
    /\ [][DuplicateCreateFails]_vars
    /\ [][OperationAfterFailure]_vars

\* a named node has just survived a duplicate create_twin
C20_Witness ==
    /\ ret.op = "create_twin"
    /\ ret.exc = "IntegrityError"
    /\ \E t \in twin_nodes : t.dtmi = ret.dtmi /\ t.display_name = NameN1
    /\ Cardinality(twin_nodes) = 2

(***************************************************************************)
(* C21: update_twin changes only the fields passed with a non-None value.  *)
(* A step of update_twin leaves every relationship as it is, keeps the id, *)
(* the dtmi and the validation payload of every twin, sets display_name    *)
(* and model_version of the named twin to the value passed when one is     *)
(* passed and keeps the stored value when None is passed; for an unknown   *)
(* dtmi it raises ValueError and the store is unchanged.                   *)
(***************************************************************************)
TwinWithId(rows, id) == CHOOSE t \in rows : t.id = id

UpdateTwinFrame ==
    ret'.op = "update_twin" =>
        /\ relationship_edges' = relationship_edges
        /\ file_objects' = file_objects
        /\ (ret'.exc = "ValueError") = (get_twin_by_dtmi(ret'.dtmi) = {})
        /\ ret'.exc = "ValueError" => twin_nodes' = twin_nodes
        /\ {t.id : t \in twin_nodes'} = {t.id : t \in twin_nodes}
        /\ Cardinality(twin_nodes') = Cardinality(twin_nodes)
        /\ \A t \in twin_nodes :
              LET u == TwinWithId(twin_nodes', t.id)
                  named == t.dtmi = ret'.dtmi
              IN  /\ u.dtmi = t.dtmi
                  /\ u.validation = t.validation
                  /\ u.display_name =
                        IF named /\ ret'.display_name # NoName
                        THEN ret'.display_name ELSE t.display_name
                  /\ u.model_version =
                        IF named /\ ret'.model_version # NoVersion
                        THEN ret'.model_version ELSE t.model_version

C21_UpdateTwinFrame == [][UpdateTwinFrame]_vars

\* update_twin(DTMI A, model_version = "1.0") has kept the display name n1
\* and the validation payload stored before
C21_Witness ==
    /\ ret.op = "update_twin" /\ ret.exc = "none" /\ ret.dtmi = DtmiA
    /\ ret.display_name = NoName /\ ret.model_version = VersionV1
    /\ \E t \in twin_nodes :
          /\ t.dtmi = DtmiA /\ t.display_name = NameN1
          /\ t.model_version = VersionV1 /\ t.validation = Some(PayloadWarning)
    /\ \E e \in relationship_edges : e.validation = Some(PayloadError)

\* update_twin of the unknown DTMI C has failed
C21_WitnessUnknown ==
    /\ ret.op = "update_twin" /\ ret.exc = "ValueError" /\ ret.dtmi = DtmiC
    /\ ret.display_name = NameN1
    /\ \E t \in twin_nodes : t.display_name = NameN1

(***************************************************************************)
(* C22: the validation accessors.  As claimed: each of set_node_validation,*)
(* get_node_validation, set_edge_validation and get_edge_validation fails  *)
(* with ValueError when the DTMI or edge id it names is not stored.        *)
(***************************************************************************)
ValidationOps ==
    {"set_node_validation", "get_node_validation",
     "set_edge_validation", "get_edge_validation"}

\* the twin or edge named by the last accessor call is not stored
NamedIsMissing ==
    IF ret.op \in {"set_node_validation", "get_node_validation"}
    THEN get_twin_by_dtmi(ret.dtmi) = {}
    ELSE get_relationship_by_id(ret.edge_id) = {}

\* the payload stored for the twin or edge named by the last accessor call
StoredValidation ==
    IF ret.op \in {"set_node_validation", "get_node_validation"}
    THEN (CHOOSE t \in twin_nodes : t.dtmi = ret.dtmi).validation
    ELSE (CHOOSE e \in relationship_edges : e.id = ret.edge_id).validation

C22_AccessorsFailHard ==
    ret.op \in ValidationOps =>
        IF NamedIsMissing THEN ret.exc = "ValueError"
        ELSE ret.exc = "none" /\ ret.value = StoredValidation

(***************************************************************************)
(* C22 as amended: the two setters fail with ValueError for an unknown     *)
(* DTMI or edge id and leave the store unchanged; the two getters never    *)
(* fail, they return None for an unknown DTMI or edge id; for a stored     *)
(* twin or edge a getter returns the stored payload, which is the payload  *)
(* last set: a setter stores its payload on the named row only, and no     *)
(* other step changes a payload.                                           *)
(***************************************************************************)
AccessorResult ==
    ret.op \in ValidationOps =>
        IF NamedIsMissing
        THEN IF ret.op \in {"set_node_validation", "set_edge_validation"}
             THEN ret.exc = "ValueError"
             ELSE ret.exc = "none" /\ ret.value = None
        ELSE ret.exc = "none" /\ ret.value = StoredValidation

ValidationOf(rows) == {<<r.id, r.validation>> : r \in rows}

AccessorStep ==
    /\ ret'.op \in {"get_node_validation", "get_edge_validation"} =>
          twin_nodes' = twin_nodes /\ relationship_edges' = relationship_edges
    /\ ret'.op \in ValidationOps /\ ret'.exc = "ValueError" =>
          twin_nodes' = twin_nodes /\ relationship_edges' = relationship_edges
    /\ ret'.op = "set_node_validation" /\ ret'.exc = "none" =>
          /\ relationship_edges' = relationship_edges
          /\ twin_nodes' = {IF t.dtmi = ret'.dtmi
                            THEN [t EXCEPT !.validation = ret'.value] ELSE t :
                                t \in twin_nodes}
    /\ ret'.op = "set_edge_validation" /\ ret'.exc = "none" =>
          /\ twin_nodes' = twin_nodes
          /\ relationship_edges' = {IF e.id = ret'.edge_id
                                    THEN [e EXCEPT !.validation = ret'.value] ELSE e :
                                        e \in relationship_edges}
    /\ ret'.op \notin {"set_node_validation", "set_edge_validation"} =>
          /\ ValidationOf(twin_nodes') = ValidationOf(twin_nodes)
          /\ ValidationOf(relationship_edges') = ValidationOf(relationship_edges)

C22_AccessorsAmended == []AccessorResult /\ [][AccessorStep]_vars

\* get_node_validation of the unknown DTMI C has returned None, without
\* raising, while a stored twin carries a payload
C22_Witness ==
    /\ ret.op = "get_node_validation" /\ ret.dtmi = DtmiC
    /\ ret.exc = "none" /\ ret.value = None
    /\ \E t \in twin_nodes : t.validation = Some(PayloadWarning)

\* get_edge_validation of the stored edge has returned the payload set
C22_WitnessStored ==
    /\ ret.op = "get_edge_validation" /\ ret.edge_id = 1
    /\ ret.value = Some(PayloadError)
    /\ \E t \in twin_nodes : t.validation = Some(PayloadWarning)

\* set_edge_validation of the unknown edge id 2 has failed
C22_WitnessSetUnknown ==
    /\ ret.op = "set_edge_validation" /\ ret.edge_id = 2 /\ ret.exc = "ValueError"
    /\ \E e \in relationship_edges : e.validation = Some(PayloadError)

(***************************************************************************)
(* C23: for two kicad_ecad snapshots nets_added is the sorted set of net   *)
(* names of the new snapshot that the old one does not have, and           *)
(* nets_removed the converse, also when nets is a dict keyed by net name;  *)
(* components_added and components_removed likewise by ref or reference.   *)
(***************************************************************************)
\* the net names of a snapshot: the keys of a dict of nets, the names in a
\* list of nets
NetNames(data) ==
    IF "nets" \notin DOMAIN data THEN {}
    ELSE IF data.nets.t = "dict" THEN DOMAIN data.nets.v
         ELSE {IF x.t = "dict" THEN x.v.name ELSE x.v : x \in Range(data.nets.v)}

\* the refs of the components that have one
ComponentRefs(data) ==
    IF "components" \notin DOMAIN data THEN {}
    ELSE UNION {IF "ref" \in DOMAIN x.v /\ x.v.ref # <<>> THEN {x.v.ref}
                ELSE IF "reference" \in DOMAIN x.v THEN {x.v.reference} ELSE {} :
                    x \in Range(data.components.v)}

HasRefs(data) ==
    "components" \in DOMAIN data =>
        \A x \in Range(data.components.v) : ComponentRef(x) # <<>>

C23_KicadNameDifferences ==
    DiffReturned =>
        LET old == ExtractedById(ret.old_id).data
            new == ExtractedById(ret.new_id).data
            structural == ret.value.structural
        IN  /\ structural.nets_added = sorted(NetNames(new) \ NetNames(old))
            /\ structural.nets_removed = sorted(NetNames(old) \ NetNames(new))
            /\ HasRefs(old) /\ HasRefs(new) =>
                  /\ structural.components_added =
                         sorted(ComponentRefs(new) \ ComponentRefs(old))
                  /\ structural.components_removed =
                         sorted(ComponentRefs(old) \ ComponentRefs(new))

(***************************************************************************)
(* C24: for two snapshots of one kind that is neither kicad_ecad nor       *)
(* freecad_tree, hash_changed is FALSE exactly when the two payloads agree *)
(* apart from the volatile keys tool_info, errors, timestamp, created_at   *)
(* and updated_at, at every nesting level: they have the same other keys,  *)
(* lists of the same length, equal scalars, and agree below every such key *)
(* and at every list position.                                             *)
(***************************************************************************)
VolatileKeys == {"tool_info", "errors", "timestamp", "created_at", "updated_at"}

RECURSIVE AgreeApartFromVolatile(_, _)
AgreeApartFromVolatile(a, b) ==
    IF a.t # b.t THEN FALSE
    ELSE IF a.t = "dict"
         THEN /\ (DOMAIN a.v) \ VolatileKeys = (DOMAIN b.v) \ VolatileKeys
              /\ \A k \in (DOMAIN a.v) \ VolatileKeys :
                    AgreeApartFromVolatile(a.v[k], b.v[k])
         ELSE IF a.t = "list"
              THEN /\ Len(a.v) = Len(b.v)
                   /\ \A i \in 1..Len(a.v) : AgreeApartFromVolatile(a.v[i], b.v[i])
              ELSE a.v = b.v

PayloadsAgree(old, new) ==
    /\ (DOMAIN old) \ VolatileKeys = (DOMAIN new) \ VolatileKeys
    /\ \A k \in (DOMAIN old) \ VolatileKeys :
          IF k \in PlainKeys THEN old[k] = new[k]
          ELSE AgreeApartFromVolatile(old[k], new[k])

C24_HashIgnoresVolatileKeys ==
    DiffReturned /\ IsHashKind(ret.value.kind)
    /\ ExtractedById(ret.old_id).kind = ExtractedById(ret.new_id).kind =>
        ret.value.structural.hash_changed =
            ~PayloadsAgree(ExtractedById(ret.old_id).data, ExtractedById(ret.new_id).data)

\* two metadata snapshots that differ only in a nested created_at and in the
\* top-level timestamp: the hash has not changed
C24_Witness ==
    /\ DiffReturned /\ ret.value.kind = "metadata"
    /\ "hash_changed" \in DOMAIN ret.value.structural
    /\ ~ret.value.structural.hash_changed
    /\ LET old == ExtractedById(ret.old_id).data
           new == ExtractedById(ret.new_id).data
       IN  /\ "meta" \in DOMAIN old /\ "meta" \in DOMAIN new
           /\ "created_at" \in DOMAIN old.meta.v /\ "created_at" \in DOMAIN new.meta.v
           /\ old.meta.v.created_at # new.meta.v.created_at
           /\ "timestamp" \in DOMAIN old /\ "timestamp" \notin DOMAIN new

\* two metadata snapshots whose lists hold the same dicts in another order:
\* the hash has changed
C24_WitnessListOrder ==
    /\ DiffReturned /\ ret.value.kind = "metadata"
    /\ "hash_changed" \in DOMAIN ret.value.structural
    /\ ret.value.structural.hash_changed
    /\ LET old == ExtractedById(ret.old_id).data
           new == ExtractedById(ret.new_id).data
       IN  /\ "items" \in DOMAIN old /\ "items" \in DOMAIN new
           /\ Len(old.items.v) = 2 /\ Len(new.items.v) = 2
           /\ old.items.v[1] = new.items.v[2] /\ old.items.v[2] = new.items.v[1]
           /\ old.items.v[1] # old.items.v[2]
           /\ Merge([items |-> 0], old) = Merge([items |-> 0], new)

\* a list item's errors differ and nothing else: the hash has not changed
C24_WitnessNestedInList ==
    /\ DiffReturned /\ ret.value.kind = "metadata"
    /\ "hash_changed" \in DOMAIN ret.value.structural
    /\ ~ret.value.structural.hash_changed
    /\ LET old == ExtractedById(ret.old_id).data
           new == ExtractedById(ret.new_id).data
       IN  /\ "items" \in DOMAIN old /\ "items" \in DOMAIN new
           /\ old.items # new.items

(***************************************************************************)
(* C25: get_subgraph terminates on every finite graph, cycles, self-loops  *)
(* and parallel edges included, for every max_hops >= 0 and either         *)
(* direction.  During a call every node is enqueued at most once and       *)
(* dequeued at most once, every enqueued node has been dequeued or waits   *)
(* in the queue, and only stored nodes are enqueued: the loop, which       *)
(* dequeues one node per iteration, runs at most once per stored node,     *)
(* then the queue is empty and the call returns.                           *)
(***************************************************************************)
EnqueuedOnce ==
    /\ NoDuplicates(bfs.enqueues)
    /\ NoDuplicates(bfs.expansions)
    /\ Range(bfs.enqueues) \subseteq {t.id : t \in twin_nodes}

C25_SubgraphTerminates ==
    bfs.pc = "loop" =>
        /\ EnqueuedOnce
        /\ bfs.expansions \o [i \in 1..Len(bfs.queue) |-> bfs.queue[i][1]] = bfs.enqueues
        /\ Len(bfs.expansions) <= Cardinality(twin_nodes)
        /\ \A i \in 1..Len(bfs.queue) : bfs.queue[i][2] <= bfs.max_hops

\* under the fairness of SpecBfsFair a running call returns
SubgraphReturns ==
    (bfs.pc = "loop") ~> (bfs.pc = "done" /\ ret.op = "get_subgraph" /\ ret.exc = "none")

\* an undirected call with max_hops = 2 on the cycle A -> B -> A has
\* expanded both nodes and its queue is empty
C25_Witness ==
    /\ bfs.pc = "loop" /\ bfs.max_hops = 2 /\ bfs.queue = <<>>
    /\ ExistsEdge(DtmiA, DtmiB) /\ ExistsEdge(DtmiB, DtmiA)
    /\ Len(bfs.expansions) = 2

\* a call on a node with a self-loop and two parallel edges has returned
C25_WitnessSelfLoop ==
    /\ bfs.pc = "done" /\ ret.op = "get_subgraph" /\ ret.exc = "none"
    /\ ExistsEdge(DtmiA, DtmiA)
    /\ Cardinality(relationship_edges) = 2
    /\ Len(ret.edges) = 2

(***************************************************************************)
(* C26: only attach_file and detach_file change the twin reference of a    *)
(* file object; update_file_object called with media_type and version only *)
(* leaves twin_id as it is.                                                *)
(***************************************************************************)
TwinRefs(rows) == {<<f.id, f.twin_id>> : f \in rows}

OnlyAttachDetachChangeTwin ==
    TwinRefs(file_objects') # TwinRefs(file_objects) =>
        ret'.op \in {"attach_file", "detach_file"}

C26_MetadataKeepsTwin == [][OnlyAttachDetachChangeTwin]_vars

(***************************************************************************)
(* C27: for the impact of a diff between two snapshots of one kind that is *)
(* neither kicad_ecad nor freecad_tree: when dt_key_added or               *)
(* dt_key_removed is not empty, hash_changed is TRUE, and every directly   *)
(* impacted record carries a structural_change evidence and has severity   *)
(* at least 0.8.                                                           *)
(***************************************************************************)
DiffOfImpact == DiffOf(ExtractedById(ret.old_id), ExtractedById(ret.new_id))

C27_KeyChangeChangesHash ==
    /\ ImpactReturned
    /\ ExtractedById(ret.old_id).kind = ExtractedById(ret.new_id).kind
    /\ IsHashKind(ExtractedById(ret.new_id).kind)
    /\ (DiffOfImpact.dt_key_added # <<>> \/ DiffOfImpact.dt_key_removed # <<>>)
    => /\ DiffOfImpact.structural.hash_changed
       /\ \A i \in 1..Len(ret.impacted) :
             /\ ret.impacted[i].severity >= 8
             /\ \E j \in 1..Len(ret.impacted[i].evidences) :
                   ret.impacted[i].evidences[j].kind = "structural_change"

\* two metadata snapshots; the new one adds the key of twin A, whose record
\* has severity 0.8 (0.6 raised by 0.2)
C27_Witness ==
    /\ ImpactReturned
    /\ ExtractedById(ret.old_id).kind = "metadata"
    /\ ExtractedById(ret.new_id).kind = "metadata"
    /\ DiffOfImpact.dt_key_added = <<DtmiA>> /\ DiffOfImpact.dt_key_removed = <<>>
    /\ Len(ret.impacted) = 1
    /\ ret.impacted[1].dtmi = DtmiA /\ ret.impacted[1].severity = 8

(***************************************************************************)
(* C28: once a 'deleted' event has been emitted for a registered file      *)
(* whose path is missing, a scan emits no further event for that file      *)
(* while the path stays missing.                                           *)
(***************************************************************************)
\* the events emitted for a file, in order
RECURSIVE EventsOf(_, _)
EventsOf(evs, file_id) ==
    IF evs = <<>> THEN <<>>
    ELSE (IF Head(evs).file_id = file_id THEN <<Head(evs)>> ELSE <<>>)
         \o EventsOf(Tail(evs), file_id)

DeletedWasEmitted(file_id) ==
    LET evs == EventsOf(events, file_id)
    IN  evs # <<>> /\ evs[Len(evs)].change = "deleted"

NoEventWhileMissing ==
    \A f \in file_objects :
        /\ DeletedWasEmitted(f.id)
        /\ fs[f.id] = MissingPath /\ fs'[f.id] = MissingPath
        => EventsOf(events', f.id) = EventsOf(events, f.id)

JobsFollowEvents ==
    /\ Len(jobs) = Len(events)
    /\ \A j \in 1..Len(events) :
          /\ jobs[j].file_id = events[j].file_id
          /\ jobs[j].reason = events[j].change
          /\ jobs[j].queued_at = events[j].at

\* the pending change of a file and its timestamp; none without an entry
PendingOf(st, file_id) ==
    IF EntryIndex(st, file_id) = 0
    THEN [change |-> "None", at |-> NoTime]
    ELSE [change |-> st[EntryIndex(st, file_id)].pending_change,
          at |-> st[EntryIndex(st, file_id)].pending_at]

DebounceStep ==
    LET emitted == SubSeq(events', Len(events) + 1, Len(events'))
    IN  /\ Len(events') >= Len(events)
        /\ SubSeq(events', 1, Len(events)) = events
        /\ SubSeq(jobs', 1, Len(jobs)) = jobs
        /\ \A j \in 1..Len(emitted) :
              LET before == PendingOf(_state, emitted[j].file_id)
              IN  /\ before.change = emitted[j].change
                  /\ before.at # NoTime
                  /\ now' - before.at >= debounce
                  /\ emitted[j].at = now'
                  /\ PendingOf(_state', emitted[j].file_id).change = "None"
                  /\ \A k \in 1..Len(emitted) :
                        emitted[k].file_id = emitted[j].file_id => k = j
        /\ \A f \in file_objects :
              LET before == PendingOf(_state, f.id)
                  after == PendingOf(_state', f.id)
              IN  /\ after.change # "None" /\ after.change = before.change =>
                        after.at = before.at
                  /\ after.change # "None" /\ after.change # before.change =>
                        after.at = now'
                  /\ after.change # "None" => now' - after.at < debounce

C29_Debounce == []JobsFollowEvents /\ [][DebounceStep]_vars

\* a 'created' and then a 'modified' event have been emitted for the file,
\* and the two jobs are queued in that order
C29_Witness ==
    /\ Len(events) = 2
    /\ events[1].change = "created" /\ events[2].change = "modified"
    /\ jobs[1].reason = "created" /\ jobs[2].reason = "modified"
    /\ jobs[2].hash = 2

\* a scan has detected again the change that was pending, and has kept its
\* timestamp
C29_WitnessSameKind ==
    /\ Len(_state) = 1
    /\ _state[1].pending_change = "modified"
    /\ _state[1].pending_at = now - 1
    /\ _state[1].hash = 1 /\ fs[1] = 1
    /\ events # <<>>

\* a change of another kind has replaced the pending one and restarted the
\* timer: the file created one clock unit ago is now pending as deleted
C29_WitnessOtherKind ==
    /\ Len(_state) = 1
    /\ _state[1].pending_change = "deleted"
    /\ _state[1].pending_at = now /\ now = 2
    /\ _state[1].hash # NoHash
    /\ events = <<>>

(***************************************************************************)
(* C30: importing the same set of models a second time changes neither the *)
(* nodes nor the relationship edges.                                       *)
(***************************************************************************)
\* the step is an import of the models, with the validator findings, that
\* the step before it imported
Reimport ==
    /\ ret.op = "import_dtdl" /\ ret'.op = "import_dtdl"
    /\ ret'.models = ret.models
    /\ ret'.dotnet_issues = ret.dotnet_issues

C30_ImportIdempotent ==
    [][Reimport => twin_nodes' = twin_nodes /\ relationship_edges' = relationship_edges]_vars

\* C30 as amended: the second import leaves the nodes unchanged and keeps
\* every edge, and adds one edge for each Relationship it imports, parallel
\* to an edge the graph already has.
ReimportAddsParallelEdges ==
    Reimport =>
        /\ twin_nodes' = twin_nodes
        /\ relationship_edges \subseteq relationship_edges'
        /\ Cardinality(relationship_edges' \ relationship_edges) =
               ret'.counts.relationship_edges_created
        /\ \A e \in relationship_edges' \ relationship_edges :
              \E old \in relationship_edges :
                  old.source_id = e.source_id /\ old.target_id = e.target_id

C30_ReimportAmended == [][ReimportAddsParallelEdges]_vars

\* the source and target models have been imported twice: two nodes, and two
\* parallel edges from the source to the target
C30_Witness ==
    /\ ret.op = "import_dtdl"
    /\ ret.models = <<ModelSource, ModelTarget>>
    /\ ret.counts.relationship_edges_created = 1
    /\ Cardinality(twin_nodes) = 2
    /\ Cardinality(relationship_edges) = 2
    /\ \A e \in relationship_edges :
          /\ get_twin_by_id(e.source_id) = get_twin_by_dtmi(DtmiA)
          /\ get_twin_by_id(e.target_id) = get_twin_by_dtmi(DtmiB)

====
